---- MODULE Spec2Model ----
(***************************************************************************)
(* Verification model of the syfala audio transport.                       *)
(*                                                                         *)
(*  - the UDP client registry (GenericClient): per-server IO state map,    *)
(*    deadline priority queue, receive loop, timeout handler;              *)
(*  - the indexed byte framer: SampleByteStream (samples -> bytes) and     *)
(*    AudioPacketSamplePadder (indexed bytes -> samples with padding).     *)
(*                                                                         *)
(* Time is counted in milliseconds.  The clock readings explored are the   *)
(* sparse set Instants; a receive timeout never fires before the socket's  *)
(* receive timeout has elapsed, but may fire (or a datagram may arrive)    *)
(* at any later explored instant.                                          *)
(***************************************************************************)
EXTENDS Integers, Sequences, FiniteSets, Bags, TLC

VARIABLES
    servers,        \* GenericClient.servers : address -> ServerIOState
    deadlines,      \* GenericClient.deadlines : address -> expiry instant
    recv_timeout,   \* the socket's receive timeout (Option<Duration>)
    now,            \* clock reading at the last handled event
    pc,             \* position of Client::start: "running" | "returned" | "panicked"
    event,          \* the last event handled by the receive loop (history)
    sent,           \* bag of the send_msg calls made while handling the last event
    calls,          \* bag of the callbacks invoked while handling the last event
    result,         \* kind of the io::Error returned by Client::start, or "none"
    size,           \* T::SIZE of the framed sample type
    source,         \* samples not yet pulled by the producer's byte iterator
    pulled,         \* samples pulled so far by the producer
    prod_idx,       \* SampleByteStream.current_byte_idx
    prod_scratch,   \* SampleByteStream.current_sample_bytes
    stream,         \* bytes emitted so far by the producer
    fed,            \* number of stream bytes already handed to the consumer
    cons_idx,       \* AudioPacketSamplePadder.current_byte_idx
    cons_scratch,   \* AudioPacketSamplePadder.current_sample_bytes
    out,            \* samples drained from the consumer so far
    cons_fault,     \* TRUE once draining feed_bytes has panicked
    feed,           \* the last feed_bytes call (history)
    n_ports,        \* interleaver.n_ports() of the duplex handler's stream
    start_frame_idx, \* DuplexProcessHandler.start_frame_idx (OnceCell<u64>)
    cycle,          \* scope.last_frame_time() of the last process cycle
    frame_idx,      \* frame_idx computed by the last process cycle
    spl_idx,        \* spl_idx computed by the last process cycle
    control,        \* outcome of the last process cycle: "none" | "Continue" | "panicked"
    role,           \* which binary runs: "client" (jack_client_run) | "server"
    control_thread, \* the control (beacon/discovery) thread: "running" | "finished"
    net_pc,         \* position of audio_network_thread_run
    park_token,     \* the network thread's unpark token
    event_queue,    \* number of (addr, queue) events pushed and not yet popped
    jack_clients,   \* number of active JACK clients owned by the control thread
    rx_map,         \* number of peers in the network thread's map
    ready,          \* chunks written by the audio callbacks and not yet sent
    pending,        \* datagrams waiting in the audio socket
    rb_mem,         \* the ring buffer's slots (memory), slot i holds rb_mem[i]
    rb_head,        \* number of slots the consumer has released so far
    rb_tail,        \* number of slots the producer has committed so far
    tx_pos,         \* the sender's timer: timestamp expected of the next sample
    tx_call,        \* the Sender::send call in progress
    rx_call,        \* the consumer's read_chunk in progress
    got,            \* what the consumer has read so far (history)
    ring_fault,     \* "none", or the thread that panicked
    period,         \* PeriodicCounter.period
    current,        \* PeriodicCounter.current
    advanced,       \* the last advance call and its outcome (history)
    feeding,        \* the last feed_samples call (history)
    wire_side,      \* the sending operation: "client" | "server" | "config"
    wire_msg,       \* the logical message handed to send
    wire_flat,      \* its flat wire form
    wire_sent,      \* the send: encoded length, the socket's answer, the result
    wire_seen,      \* the logical message the receiving peer obtains
    wire_fmt,       \* what the receiver derives from an advertised format
    peer_state,     \* per peer of the JACK client binary: its registration, its
                    \* audio callback, its ring buffer, waker and packet sender
    net_thread,     \* audio_network_thread_run: position, unpark token, locals
    audio_sender,   \* an audio packet sender: its fields and what it has emitted
    rx_packet,      \* a datagram handed to recv_audio_packet and the outcome
    config_trip     \* a configuration handed to send_config and what parse_config
                    \* makes of the packet

clientVars == <<servers, deadlines, recv_timeout, now, pc, event, sent, calls,
                result>>
framerVars == <<size, source, pulled, prod_idx, prod_scratch, stream, fed,
                cons_idx, cons_scratch, out, cons_fault, feed>>
jackVars == <<n_ports, start_frame_idx, cycle, frame_idx, spl_idx, control>>
threadVars == <<role, control_thread, net_pc, park_token, event_queue,
                jack_clients, rx_map, ready, pending>>
ringVars == <<rb_mem, rb_head, rb_tail, tx_pos, tx_call, rx_call, got, ring_fault>>
counterVars == <<period, current, advanced>>
wireVars == <<wire_side, wire_msg, wire_flat, wire_sent, wire_seen, wire_fmt>>
wakeVars == <<peer_state, net_thread>>
extVars == <<wakeVars, audio_sender, rx_packet, config_trip>>
auxVars == <<jackVars, threadVars, ringVars, counterVars, feeding, wireVars, extVars>>
vars == <<clientVars, framerVars, auxVars>>
notJack == <<clientVars, framerVars, threadVars, ringVars, counterVars, feeding, wireVars, extVars>>
notThreads == <<clientVars, framerVars, jackVars, ringVars, counterVars, feeding, wireVars, extVars>>
notRing == <<clientVars, framerVars, jackVars, threadVars, counterVars, feeding, wireVars, extVars>>
notWire == <<clientVars, framerVars, jackVars, threadVars, ringVars, counterVars, feeding, extVars>>
notCounter == <<clientVars, framerVars, jackVars, threadVars, ringVars, feeding, wireVars, extVars>>

----------------------------------------------------------------------------
(* Bounds *)

MaxAddrs == 2       \* number of server addresses
MaxEpoch == 1       \* explored instants span MaxEpoch connection timeouts
MaxFine == 1        \* explored instants per epoch: 0..MaxFine ms after its start

(* Program constants (milliseconds) *)

CONN_TIMEOUT == 600
REQUEST_POLL_PERIOD == 10

Addrs == 1..MaxAddrs

Instants == { e * CONN_TIMEOUT + f : e \in 0..MaxEpoch, f \in 0..MaxFine }

Min(a, b) == IF a <= b THEN a ELSE b

----------------------------------------------------------------------------
(* Messages *)

\* decoded syfala_proto::message::Server values, as matched by the client
ServerMsgs ==
    { "Connect", "Disconnect", "Heartbeat", "Audio",
      "Start(Ok)", "Start(Err(Failure))", "Start(Err(Refusal))",
      "Stop(Ok)", "Stop(Err(Failure))", "Stop(Err(Refusal))" }

ConnectedMsgs == ServerMsgs \ { "Connect", "Disconnect" }

\* results of the application's connect callback
ConnectResults == { "Ok", "Err(Failure)", "Err(Refusal)" }

ServerIOState == { "Inactive", "PendingStart", "Active", "PendingStop" }

\* Client::Connected(Control(RequestIOStateChange(IOState::Start(())))) and
\* ...(IOState::Stop(()))
REQUEST_START == "RequestIOStateChange(Start)"
REQUEST_STOP == "RequestIOStateChange(Stop)"

\* the associated constant Client::START_IO
START_IO == REQUEST_START

None == [some |-> FALSE, dur |-> 0]
Some(d) == [some |-> TRUE, dur |-> d]

One(e) == SetToBag({e})

Send(m, a, ok) == [msg |-> m, to |-> a, ok |-> ok]
Call(c, a) == [cb |-> c, addr |-> a]

\* map helpers
\* a variant of remove that empties the map
MapRemoveAll(f, a) == [x \in {} |-> f[x]]

MapRemove(f, a) == [x \in (DOMAIN f) \ {a} |-> f[x]]
MapInsert(f, a, v) == [x \in (DOMAIN f) \cup {a} |-> IF x = a THEN v ELSE f[x]]

----------------------------------------------------------------------------
(* ServerIOState::on_msg *)

Step(s, snd, cls, err) == [state |-> s, sent |-> snd, calls |-> cls, err |-> err]

\* an arm that ignores the message: (*) not waiting for ...
Ignored(s) == Step(s, EmptyBag, EmptyBag, FALSE)

\* a variant of the Start(Ok) arm that activates without notifying
on_start_ok_unnotified(s, addr) ==
    IF s = "PendingStart"
    THEN Step("Active", EmptyBag, EmptyBag, FALSE)
    ELSE Ignored(s)

\* IOStateChangeResult(Start(Ok)) (mod.rs 83-89)
on_start_ok(s, addr) ==
    IF s = "PendingStart"
    THEN Step("Active", EmptyBag, One(Call("start_io", addr)), FALSE)
    ELSE Ignored(s)

\* IOStateChangeResult(Start(Err(Failure))) (mod.rs 92-107)
on_start_failure(s, addr, sendOk) ==
    IF s = "PendingStart"
    THEN Step(s, One(Send(REQUEST_START, addr, sendOk)),
              One(Call("start_io_failed", addr)), ~sendOk)
    ELSE Ignored(s)

\* IOStateChangeResult(Start(Err(Refusal))) (mod.rs 109-115)
on_start_refusal(s, addr) ==
    IF s = "PendingStart"
    THEN Step("Inactive", EmptyBag, One(Call("start_io_refused", addr)), FALSE)
    ELSE Ignored(s)

\* a variant of the Stop(Ok) arm that also stops a server that is Active
on_stop_ok_any(s, addr) ==
    IF s \in { "PendingStop", "Active" }
    THEN Step("Inactive", EmptyBag, One(Call("stop_io", addr)), FALSE)
    ELSE Ignored(s)

\* IOStateChangeResult(Stop(Ok)) (mod.rs 121-127)
on_stop_ok(s, addr) ==
    IF s = "PendingStop"
    THEN Step("Inactive", EmptyBag, One(Call("stop_io", addr)), FALSE)
    ELSE Ignored(s)

\* a variant of the Stop(Err(Failure)) arm that does not retry
on_stop_failure_silent(s, addr, sendOk) ==
    IF s = "PendingStop"
    THEN Step(s, EmptyBag, One(Call("stop_io_failed", addr)), FALSE)
    ELSE Ignored(s)

\* IOStateChangeResult(Stop(Err(Failure))) (mod.rs 130-144)
on_stop_failure(s, addr, sendOk) ==
    IF s = "PendingStop"
    THEN Step(s, One(Send(REQUEST_STOP, addr, sendOk)),
              One(Call("stop_io_failed", addr)), ~sendOk)
    ELSE Ignored(s)

\* a variant of the Stop(Err(Refusal)) arm that deactivates
on_stop_refusal_deactivates(s, addr) ==
    IF s = "PendingStop"
    THEN Step("Inactive", EmptyBag, One(Call("stop_io_refused", addr)), FALSE)
    ELSE Ignored(s)

\* IOStateChangeResult(Stop(Err(Refusal))) (mod.rs 146-152)
on_stop_refusal(s, addr) ==
    IF s = "PendingStop"
    THEN Step("Active", EmptyBag, One(Call("stop_io_refused", addr)), FALSE)
    ELSE Ignored(s)

\* a variant of the Audio arm that also forwards while a stop is pending
on_audio_msg_pending(s, addr) ==
    IF s \in { "Active", "PendingStop" }
    THEN Step(s, EmptyBag, One(Call("on_audio", addr)), FALSE)
    ELSE Ignored(s)

\* Connected::Audio (mod.rs 160-165)
on_audio_msg(s, addr) ==
    IF s = "Active"
    THEN Step(s, EmptyBag, One(Call("on_audio", addr)), FALSE)
    ELSE Ignored(s)

on_msg(s, addr, msg, sendOk) ==
    CASE msg = "Start(Ok)" -> on_start_ok(s, addr)
      [] msg = "Start(Err(Failure))" -> on_start_failure(s, addr, sendOk)
      [] msg = "Start(Err(Refusal))" -> on_start_refusal(s, addr)
      [] msg = "Stop(Ok)" -> on_stop_ok(s, addr)
      [] msg = "Stop(Err(Failure))" -> on_stop_failure(s, addr, sendOk)
      [] msg = "Stop(Err(Refusal))" -> on_stop_refusal(s, addr)
      [] msg = "Heartbeat" -> Ignored(s)
      [] msg = "Audio" -> on_audio_msg(s, addr)

----------------------------------------------------------------------------
(* GenericClient handlers.  A handler result carries the new map and heap, *)
(* the sends and callbacks made, err (an io::Error was returned) and       *)
(* panic (an unwrap failed).                                               *)

Res(srv, dl, snd, cls, err, panic) ==
    [servers |-> srv, deadlines |-> dl, sent |-> snd, calls |-> cls,
     err |-> err, panic |-> panic]

\* a variant that asks the application again for a server already in the map
on_server_connect_request_again(srv, dl, addr, connectRes, sendOk) ==
    IF connectRes = "Ok"
    THEN Res(MapInsert(srv, addr, "Inactive"), dl,
             One(Send("ConnectionResult(Ok)", addr, sendOk)),
             One(Call("connect:Ok", addr)), ~sendOk, FALSE)
    ELSE Res(srv, dl,
             One(Send("ConnectionResult(" \o connectRes \o ")", addr, sendOk)),
             One(Call("connect:" \o connectRes, addr)), ~sendOk, FALSE)

\* GenericClient::on_server_connect_request (mod.rs 211-235)
on_server_connect_request(srv, dl, addr, connectRes, sendOk) ==
    IF addr \notin DOMAIN srv
    THEN IF connectRes = "Ok"
         THEN Res(MapInsert(srv, addr, "Inactive"), dl,
                  One(Send("ConnectionResult(Ok)", addr, sendOk)),
                  One(Call("connect:Ok", addr)), ~sendOk, FALSE)
         ELSE Res(srv, dl,
                  One(Send("ConnectionResult(" \o connectRes \o ")", addr, sendOk)),
                  One(Call("connect:" \o connectRes, addr)), ~sendOk, FALSE)
    ELSE Res(srv, dl, EmptyBag, EmptyBag, FALSE, FALSE)

\* a variant of the Disconnect arm that leaves the deadline in the heap
on_disconnect_map_only(srv, dl, addr) ==
    IF addr \in DOMAIN srv
    THEN Res(MapRemove(srv, addr), dl, EmptyBag, EmptyBag, FALSE, FALSE)
    ELSE Res(srv, dl, EmptyBag, EmptyBag, FALSE, FALSE)

\* the Server::Disconnect arm (mod.rs 260-268); deadlines.remove(&addr)
\* is unwrapped
on_disconnect(srv, dl, addr) ==
    IF addr \in DOMAIN srv
    THEN IF addr \in DOMAIN dl
         THEN Res(MapRemove(srv, addr), MapRemove(dl, addr),
                  EmptyBag, EmptyBag, FALSE, FALSE)
         ELSE Res(MapRemove(srv, addr), dl, EmptyBag, EmptyBag, FALSE, TRUE)
    ELSE Res(srv, dl, EmptyBag, EmptyBag, FALSE, FALSE)

\* the match on the decoded message (mod.rs 251-269)
dispatch(srv, dl, addr, msg, connectRes, sendOk) ==
    CASE msg = "Connect" ->
            on_server_connect_request(srv, dl, addr, connectRes, sendOk)
      [] msg = "Disconnect" -> on_disconnect(srv, dl, addr)
      [] OTHER ->
            IF addr \in DOMAIN srv
            THEN LET r == on_msg(srv[addr], addr, msg, sendOk)
                 IN  Res([srv EXCEPT ![addr] = r.state], dl,
                         r.sent, r.calls, r.err, FALSE)
            ELSE Res(srv, dl, EmptyBag, EmptyBag, FALSE, FALSE)

on_decoded_message(srv, dl, addr, timestamp, msg, connectRes, sendOk) ==
    LET r == dispatch(srv, dl, addr, msg, connectRes, sendOk)
    IN  IF r.err \/ r.panic
        THEN r
        ELSE IF addr \in DOMAIN r.servers
             THEN [r EXCEPT !.deadlines =
                       MapInsert(r.deadlines, addr, timestamp + CONN_TIMEOUT)]
             ELSE r

\* a variant of on_message in which any datagram of a connected server
\* refreshes its deadline
on_message_refreshing(srv, dl, addr, timestamp, maybe_msg, connectRes, sendOk) ==
    IF maybe_msg = "unknown"
    THEN Res(srv,
             IF addr \in DOMAIN srv
             THEN MapInsert(dl, addr, timestamp + CONN_TIMEOUT) ELSE dl,
             EmptyBag, One(Call("unknown_message", addr)), FALSE, FALSE)
    ELSE on_decoded_message(srv, dl, addr, timestamp, maybe_msg, connectRes, sendOk)

\* maybe_msg = "unknown" stands for a datagram that did not decode
on_message(srv, dl, addr, timestamp, maybe_msg, connectRes, sendOk) ==
    IF maybe_msg = "unknown"
    THEN Res(srv, dl, EmptyBag, One(Call("unknown_message", addr)), FALSE, FALSE)
    ELSE on_decoded_message(srv, dl, addr, timestamp, maybe_msg, connectRes, sendOk)

----------------------------------------------------------------------------
(* GenericClient::on_timeout *)

\* a variant of the Inactive arm that requests without recording it
poll_inactive_unrecorded(addr, yes, sendOk) ==
    IF yes
    THEN Step("Inactive", One(Send(START_IO, addr, sendOk)),
              One(Call("poll_start_io:Ok", addr)), ~sendOk)
    ELSE Step("Inactive", EmptyBag, One(Call("poll_start_io:Err", addr)), FALSE)

\* the Inactive arm of the polling closure (mod.rs 323-332); yes is the
\* application's answer to poll_start_io
poll_inactive(addr, yes, sendOk) ==
    IF yes
    THEN Step("PendingStart", One(Send(START_IO, addr, sendOk)),
              One(Call("poll_start_io:Ok", addr)), ~sendOk)
    ELSE Step("Inactive", EmptyBag, One(Call("poll_start_io:Err", addr)), FALSE)

\* the Active arm of the polling closure (mod.rs 333-342)
poll_active(addr, yes, sendOk) ==
    IF yes
    THEN Step("PendingStop", One(Send(START_IO, addr, sendOk)),
              One(Call("poll_stop_io:Ok", addr)), ~sendOk)
    ELSE Step("Active", EmptyBag, One(Call("poll_stop_io:Err", addr)), FALSE)

\* the closure applied to one server's state in the polling loop
\* (mod.rs 322-344)
poll_peer(s, addr, yes, sendOk) ==
    CASE s = "Inactive" -> poll_inactive(addr, yes, sendOk)
      [] s = "Active" -> poll_active(addr, yes, sendOk)
      [] OTHER -> Ignored(s)

\* the for loop over the map, visiting the servers in the given order and
\* returning at the first failed send (the map's iteration order is
\* unspecified: order ranges over the permutations of the addresses)
RECURSIVE poll_all(_, _, _, _, _, _)
poll_all(order, srv, snd, cls, pollYes, sendOk) ==
    IF order = <<>>
    THEN [servers |-> srv, sent |-> snd, calls |-> cls, err |-> FALSE]
    ELSE LET a == Head(order)
             r == poll_peer(srv[a], a, pollYes[a], sendOk[a])
             srv2 == [srv EXCEPT ![a] = r.state]
         IN  IF r.err
             THEN [servers |-> srv2, sent |-> snd (+) r.sent,
                   calls |-> cls (+) r.calls, err |-> TRUE]
             ELSE poll_all(Tail(order), srv2, snd (+) r.sent, cls (+) r.calls,
                           pollYes, sendOk)

\* deadlines.peek(): the earliest deadline
peek(dl) == CHOOSE d \in { dl[a] : a \in DOMAIN dl } :
                \A a \in DOMAIN dl : d <= dl[a]

\* Instant::saturating_duration_since
saturating_duration_since(later, earlier) ==
    IF later >= earlier THEN later - earlier ELSE 0

\* the timeout handed to set_recv_timeout (mod.rs 349-355)
next_recv_timeout(dl, t) ==
    IF DOMAIN dl = {}
    THEN None
    ELSE Some(Min(Min(saturating_duration_since(peek(dl), t), REQUEST_POLL_PERIOD),
                  CONN_TIMEOUT))

\* the set of all orders in which a set of addresses can be visited
Orders(S) == { o \in [1..Cardinality(S) -> S] :
                 \A i, j \in 1..Cardinality(S) : i # j => o[i] # o[j] }

\* a variant of the expiry test that spares a deadline equal to now
overdue_strict(dl, t) == { a \in DOMAIN dl : dl[a] < t }

\* the entries popped by pop_if(|_, Reverse(deadline)| *deadline <= now)
\* (mod.rs 311-314)
overdue(dl, t) == { a \in DOMAIN dl : dl[a] <= t }

on_timeout(srv, dl, rt, t, order, pollYes, sendOk, setOk) ==
    LET expired == overdue(dl, t)
        dl1 == [a \in (DOMAIN dl) \ expired |-> dl[a]]
        srv1 == [a \in (DOMAIN srv) \ expired |-> srv[a]]
    IN  IF ~(expired \subseteq DOMAIN srv)
        THEN [servers |-> srv1, deadlines |-> dl1, sent |-> EmptyBag, calls |-> EmptyBag,
              err |-> FALSE, panic |-> TRUE, recv_timeout |-> rt]
        ELSE LET InMap(a) == a \in DOMAIN srv1
                 r == poll_all(SelectSeq(order, InMap), srv1, EmptyBag, EmptyBag,
                               pollYes, sendOk)
             IN  [servers |-> r.servers, deadlines |-> dl1,
                  sent |-> r.sent, calls |-> r.calls,
                  err |-> r.err \/ ~setOk, panic |-> FALSE,
                  recv_timeout |-> IF r.err \/ ~setOk
                                   THEN rt ELSE next_recv_timeout(dl1, t)]

----------------------------------------------------------------------------
(* Client::start: the receive loop *)

\* crate::io_err_is_timeout
io_err_is_timeout(kind) == kind \in { "WouldBlock", "TimedOut" }

ErrorKinds == { "WouldBlock", "TimedOut", "ConnectionReset" }

Position(r) == IF r.panic THEN "panicked" ELSE IF r.err THEN "returned" ELSE "running"

\* the kinds of the io::Error a handler can hand to the ? of the loop: the
\* error of a failed send_msg or set_recv_timeout is returned as it is
Raised(r) == IF r.err /\ ~r.panic THEN ErrorKinds ELSE { "none" }

\* recv returned Ok((addr, timestamp, maybe_msg)): on_message runs
RecvOk(addr, timestamp, maybe_msg, connectRes, sendOk) ==
    /\ pc = "running"
    /\ timestamp >= now
    /\ LET r == on_message(servers, deadlines, addr, timestamp, maybe_msg,
                           connectRes, sendOk)
       IN  /\ servers' = r.servers
           /\ deadlines' = r.deadlines
           /\ sent' = r.sent
           /\ calls' = r.calls
           /\ pc' = Position(r)
           /\ result' \in Raised(r)
    /\ now' = timestamp
    /\ event' = [kind |-> "message", addr |-> addr, msg |-> maybe_msg,
                 was |-> IF addr \in DOMAIN servers THEN servers[addr] ELSE "Absent"]
    /\ UNCHANGED <<recv_timeout, framerVars, auxVars>>

\* recv returned Err(e) with a timeout kind, not before the receive timeout
\* has elapsed: on_timeout runs and reads the clock (t)
RecvTimedOut(kind, t, order, pollYes, sendOk, setOk) ==
    /\ pc = "running"
    /\ io_err_is_timeout(kind)
    /\ recv_timeout.some
    /\ t >= now + recv_timeout.dur
    /\ LET r == on_timeout(servers, deadlines, recv_timeout, t, order,
                           pollYes, sendOk, setOk)
       IN  /\ servers' = r.servers
           /\ deadlines' = r.deadlines
           /\ sent' = r.sent
           /\ calls' = r.calls
           /\ recv_timeout' = r.recv_timeout
           /\ pc' = Position(r)
           /\ result' \in Raised(r)
    /\ now' = t
    /\ event' = [kind |-> "timeout", addr |-> 0, msg |-> "none",
                 was |-> overdue(deadlines, t)]
    /\ UNCHANGED <<framerVars, auxVars>>

\* recv returned any other error: start returns it
RecvFailed(kind) ==
    /\ pc = "running"
    /\ ~io_err_is_timeout(kind)
    /\ pc' = "returned"
    /\ result' = kind
    /\ sent' = EmptyBag
    /\ calls' = EmptyBag
    /\ event' = [kind |-> "recv_error", addr |-> 0, msg |-> "none", was |-> "none"]
    /\ UNCHANGED <<servers, deadlines, recv_timeout, now, framerVars, auxVars>>

----------------------------------------------------------------------------
(* Sample codec and framer bounds *)

MaxSampleSize == 3  \* sample sizes 1..MaxSampleSize bytes
MaxSamples == 2     \* samples offered to the producer
MaxVals == 2        \* distinct sample values per size

\* usize::MAX, represented by the largest 32-bit signed integer
USIZE_MAX == 2147483647

RECURSIVE Pow256(_)
Pow256(n) == IF n = 0 THEN 1 ELSE 256 * Pow256(n - 1)

\* SampleToBytes::to_bytes: little-endian bytes of a sample of sz bytes
to_bytes(sample, sz) == [i \in 1..sz |-> (sample \div Pow256(i - 1)) % 256]

\* SampleFromBytes::from_bytes: the sample whose little-endian bytes are b
RECURSIVE from_bytes(_)
from_bytes(b) ==
    IF b = <<>> THEN 0 ELSE Head(b) + 256 * from_bytes(Tail(b))

\* sample values offered to the producer: every byte of a sample differs
SampleSet(sz) == { from_bytes([i \in 1..sz |-> 16 * k + i]) : k \in 1..MaxVals }

SeqsUpTo(S, n) == UNION { [1..k -> S] : k \in 0..n }

Zeros(sz) == [i \in 1..sz |-> 0]

Pad == [kind |-> "pad", val |-> 0]
Spl(v) == [kind |-> "spl", val |-> v]

----------------------------------------------------------------------------
(* SampleByteStreamIter::next (byte_producer.rs 66-76) *)

\* a variant whose index stands still on the first byte of each sample
producer_next_lagging(src, idx, scratch) ==
    LET current_spl_byte_idx == idx % size
    IN  IF current_spl_byte_idx = 0 /\ src = <<>>
        THEN [ok |-> FALSE, source |-> src, idx |-> idx, scratch |-> scratch,
              byte |-> 0]
        ELSE LET scratch2 == IF current_spl_byte_idx = 0
                             THEN to_bytes(Head(src), size) ELSE scratch
                 src2 == IF current_spl_byte_idx = 0 THEN Tail(src) ELSE src
             IN  [ok |-> TRUE, source |-> src2,
                  idx |-> IF current_spl_byte_idx = 0 /\ size > 1 /\ idx > 0
                          THEN idx ELSE idx + 1,
                  scratch |-> scratch2,
                  byte |-> scratch2[current_spl_byte_idx + 1]]

\* a variant that fetches a sample whenever the source has one, wherever
\* the index stands inside the current sample
producer_next_eager(src, idx, scratch) ==
    LET current_spl_byte_idx == idx % size
    IN  IF current_spl_byte_idx = 0 /\ src = <<>>
        THEN [ok |-> FALSE, source |-> src, idx |-> idx, scratch |-> scratch,
              byte |-> 0]
        ELSE LET scratch2 == IF src # <<>>
                             THEN to_bytes(Head(src), size) ELSE scratch
                 src2 == IF src # <<>> THEN Tail(src) ELSE src
             IN  [ok |-> TRUE, source |-> src2, idx |-> idx + 1,
                  scratch |-> scratch2,
                  byte |-> scratch2[current_spl_byte_idx + 1]]

\* the result of one call: ok = FALSE when the call returned None
producer_next(src, idx, scratch) ==
    LET current_spl_byte_idx == idx % size
    IN  IF current_spl_byte_idx = 0 /\ src = <<>>
        THEN [ok |-> FALSE, source |-> src, idx |-> idx, scratch |-> scratch,
              byte |-> 0]
        ELSE LET scratch2 == IF current_spl_byte_idx = 0
                             THEN to_bytes(Head(src), size) ELSE scratch
                 src2 == IF current_spl_byte_idx = 0 THEN Tail(src) ELSE src
             IN  [ok |-> TRUE, source |-> src2, idx |-> idx + 1,
                  scratch |-> scratch2,
                  byte |-> scratch2[current_spl_byte_idx + 1]]

----------------------------------------------------------------------------
(* AudioPacketSamplePadder::feed_bytes (byte_consumer.rs 96-159) *)

\* a variant of the Ordering::Greater arm that rounds the next sample down
on_gap_floor(idx, byte_idx) ==
    LET bps == size
        prev_spl_idx == idx \div bps
        next_spl_idx == byte_idx \div bps
        next_spl_byte_idx == next_spl_idx * bps
    IN  [npad |-> next_spl_idx - prev_spl_idx,
         nskip |-> next_spl_byte_idx - idx,
         idx |-> next_spl_byte_idx]

\* the Ordering::Greater arm (110-129): padding, skip and the new index
on_gap(idx, byte_idx) ==
    LET bps == size
        prev_spl_idx == idx \div bps
        next_spl_idx == (byte_idx + (bps - 1)) \div bps
        next_spl_byte_idx == next_spl_idx * bps
    IN  [npad |-> next_spl_idx - prev_spl_idx,
         nskip |-> next_spl_byte_idx - idx,
         idx |-> next_spl_byte_idx]

\* the match on byte_idx.cmp(&self.current_byte_idx) (105-130)
classify(idx, byte_idx) ==
    IF byte_idx < idx THEN [npad |-> 0, nskip |-> USIZE_MAX, idx |-> idx]
    ELSE IF byte_idx = idx THEN [npad |-> 0, nskip |-> 0, idx |-> idx]
    ELSE on_gap(idx, byte_idx)

\* Iterator::skip
skip(bytes, n) ==
    IF n >= Len(bytes) THEN <<>> ELSE SubSeq(bytes, n + 1, Len(bytes))

\* the filter_map closure (141-156) applied to one byte; panic when
\* curr.strict_sub(sample_size) underflows
on_byte(idx, scratch, byte) ==
    LET curr == idx % size
        scratch2 == [scratch EXCEPT ![curr + 1] = byte]
        idx2 == idx + 1
    IN  IF idx2 % size # 0
        THEN [idx |-> idx2, scratch |-> scratch2, out |-> <<>>, panic |-> FALSE]
        ELSE IF curr - size < 0
             THEN [idx |-> idx2, scratch |-> scratch2, out |-> <<>>, panic |-> TRUE]
             ELSE [idx |-> idx2, scratch |-> scratch2,
                   out |-> <<Spl(from_bytes(SubSeq(scratch2, curr - size + 1, curr)))>>,
                   panic |-> FALSE]

\* draining the sample iterator over the remaining bytes, up to a panic
RECURSIVE drain(_, _, _, _)
drain(idx, scratch, bytes, acc) ==
    IF bytes = <<>>
    THEN [idx |-> idx, scratch |-> scratch, out |-> acc, panic |-> FALSE]
    ELSE LET r == on_byte(idx, scratch, Head(bytes))
         IN  IF r.panic
             THEN [idx |-> r.idx, scratch |-> r.scratch, out |-> acc, panic |-> TRUE]
             ELSE drain(r.idx, r.scratch, Tail(bytes), acc \o r.out)

\* feed_bytes followed by a full drain of the returned iterator
feed_bytes(idx, scratch, byte_idx, bytes) ==
    LET c == classify(idx, byte_idx)
        d == drain(c.idx, scratch, skip(bytes, c.nskip), <<>>)
    IN  [idx |-> d.idx, scratch |-> d.scratch,
         out |-> [i \in 1..c.npad |-> Pad] \o d.out,
         panic |-> d.panic, npad |-> c.npad, nskip |-> c.nskip]

----------------------------------------------------------------------------
(* Framer operations *)

\* one call of next() on the byte iterator returned by feed_samples
ProducerNext ==
    /\ ~cons_fault
    /\ LET r == producer_next(source, prod_idx, prod_scratch)
       IN  /\ r.ok
           /\ source' = r.source
           /\ pulled' = IF Len(r.source) < Len(source)
                        THEN Append(pulled, Head(source)) ELSE pulled
           /\ prod_idx' = r.idx
           /\ prod_scratch' = r.scratch
           /\ stream' = Append(stream, r.byte)
    /\ UNCHANGED <<size, fed, cons_idx, cons_scratch, out, cons_fault, feed>>
    /\ UNCHANGED <<clientVars, auxVars>>

\* the packet (byte_idx, stream[byte_idx .. byte_idx + n)) is fed to the
\* consumer and the returned iterator is drained
FeedPacket(byte_idx, n) ==
    /\ ~cons_fault
    /\ byte_idx + n <= Len(stream)
    /\ LET bytes == SubSeq(stream, byte_idx + 1, byte_idx + n)
           r == feed_bytes(cons_idx, cons_scratch, byte_idx, bytes)
       IN  /\ cons_idx' = r.idx
           /\ cons_scratch' = r.scratch
           /\ out' = out \o r.out
           /\ cons_fault' = r.panic
           /\ feed' = [byte_idx |-> byte_idx, len |-> n,
                       expected |-> cons_idx, scratch |-> cons_scratch,
                       out_len |-> Len(out), npad |-> r.npad,
                       inorder |-> feed.inorder /\ byte_idx = fed,
                       prev_old |-> feed.len >= 0 /\ feed.byte_idx < feed.expected]
    /\ fed' = byte_idx + n
    /\ UNCHANGED <<size, source, pulled, prod_idx, prod_scratch, stream>>
    /\ UNCHANGED <<clientVars, auxVars>>

----------------------------------------------------------------------------
(* The duplex audio callback (syfala_jack::DuplexProcessHandler) *)

MaxFrameTime == 7   \* the audio engine reports frame times in 0..MaxFrameTime
MaxPorts == 2       \* ports per stream: 1..MaxPorts

\* an empty OnceCell, and one holding v
Unset == [set |-> FALSE, val |-> 0]
Holding(v) == [set |-> TRUE, val |-> v]

\* OnceCell::get_or_init: the value held, initialised with v when empty
get_or_init(cell, v) == IF cell.set THEN cell ELSE Holding(v)

\* u64::strict_sub: the difference, a panic on underflow
strict_sub(a, b) == [panic |-> a < b, val |-> IF a < b THEN 0 ELSE a - b]

\* DuplexProcessHandler::new
JackInit(ports) ==
    /\ n_ports = ports
    /\ start_frame_idx = Unset
    /\ cycle = 0
    /\ frame_idx = 0
    /\ spl_idx = 0
    /\ control = "none"

\* ProcessHandler::process for a cycle whose last_frame_time is t; a frame
\* time is a u32 and the port count is far below 2^32, so that the product
\* fits a u64
process(t) ==
    LET first == get_or_init(start_frame_idx, t)
        sub == strict_sub(t, first.val)
    IN  /\ control # "panicked"
        /\ cycle' = t
        /\ start_frame_idx' = first
        /\ IF sub.panic
           THEN /\ control' = "panicked"
                /\ UNCHANGED <<frame_idx, spl_idx>>
           ELSE /\ frame_idx' = sub.val
                /\ spl_idx' = sub.val * n_ports
                /\ control' = "Continue"
        /\ UNCHANGED n_ports
        /\ UNCHANGED notJack

----------------------------------------------------------------------------
(* The control thread, the audio callbacks and the network thread         *)
(* (syfala_jack::client and syfala_jack::server)                          *)

MaxPeers == 2       \* peers discovered by the control thread
MaxReady == 2       \* chunks waiting in the ring buffers
MaxPending == 2     \* datagrams waiting in the audio socket

\* jack_client_run / jack_server_run: the control thread is spawned and the
\* calling thread enters audio_network_thread_run
ThreadsInit(r) ==
    /\ role = r
    /\ control_thread = "running"
    /\ net_pc = IF r = "client" THEN "check" ELSE "pop"
    /\ park_token = FALSE
    /\ event_queue = 0
    /\ jack_clients = 0
    /\ rx_map = 0
    /\ ready = 0
    /\ pending = 0

\* control thread: a peer is discovered, its JACK client is started and its
\* queue end is pushed to the event queue
ControlRegisters ==
    /\ control_thread = "running"
    /\ jack_clients < MaxPeers
    /\ jack_clients' = jack_clients + 1
    /\ event_queue' = event_queue + 1
    /\ UNCHANGED <<role, control_thread, net_pc, park_token, rx_map, ready, pending>>
    /\ UNCHANGED notThreads

\* control thread: a socket operation fails, control_thread_run returns
\* through `?`; its JackClientMap is dropped, which deactivates the JACK
\* clients
ControlTerminates ==
    /\ control_thread = "running"
    /\ control_thread' = "finished"
    /\ jack_clients' = 0
    /\ UNCHANGED <<role, net_pc, park_token, event_queue, rx_map, ready, pending>>
    /\ UNCHANGED notThreads

\* client role, audio thread: AudioSender::process writes a chunk to its
\* ring buffer and the waker unparks the network thread
AudioCallback ==
    /\ role = "client"
    /\ jack_clients > 0
    /\ ready' = Min(ready + 1, MaxReady)
    /\ park_token' = TRUE
    /\ UNCHANGED <<role, control_thread, net_pc, event_queue, jack_clients, rx_map, pending>>
    /\ UNCHANGED notThreads

\* server role, environment: a datagram reaches the audio socket
DatagramArrives ==
    /\ role = "server"
    /\ pending < MaxPending
    /\ pending' = pending + 1
    /\ UNCHANGED <<role, control_thread, net_pc, park_token, event_queue,
                   jack_clients, rx_map, ready>>
    /\ UNCHANGED notThreads

\* network thread: control_thread_handle.take_if(|h| h.is_finished()), then
\* join and return the control thread's error
NetCheck ==
    /\ net_pc = "check"
    /\ net_pc' = IF control_thread = "finished" THEN "joined" ELSE "pop"
    /\ UNCHANGED <<role, control_thread, park_token, event_queue, jack_clients,
                   rx_map, ready, pending>>
    /\ UNCHANGED notThreads

\* network thread: event_rx.pop(); the client pops at most one event per
\* iteration, the server drains the queue
NetPop ==
    /\ net_pc = "pop"
    /\ IF role = "client"
       THEN /\ event_queue' = IF event_queue > 0 THEN event_queue - 1 ELSE 0
            /\ rx_map' = IF event_queue > 0 THEN rx_map + 1 ELSE rx_map
            /\ net_pc' = "send"
       ELSE /\ event_queue' = 0
            /\ rx_map' = rx_map + event_queue
            /\ net_pc' = "recv"
    /\ UNCHANGED <<role, control_thread, park_token, jack_clients, ready, pending>>
    /\ UNCHANGED notThreads

\* client network thread: try_send on every peer; ok tells whether the
\* socket accepts the datagrams.  With nothing sent the thread goes to park.
NetSend(ok) ==
    LET any_ready == rx_map > 0 /\ ready > 0
    IN  /\ net_pc = "send"
        /\ any_ready \/ ok
        /\ ready' = IF rx_map > 0 THEN 0 ELSE ready
        /\ net_pc' = IF ~ok THEN "failed"
                     ELSE IF any_ready THEN "check" ELSE "park"
        /\ UNCHANGED <<role, control_thread, park_token, event_queue,
                       jack_clients, rx_map, pending>>
        /\ UNCHANGED notThreads

\* client network thread: thread::park() returns once the token is there
NetUnparked ==
    /\ net_pc = "park"
    /\ park_token
    /\ park_token' = FALSE
    /\ net_pc' = "check"
    /\ UNCHANGED <<role, control_thread, event_queue, jack_clients, rx_map,
                   ready, pending>>
    /\ UNCHANGED notThreads

\* thread::park() may also return without a token; nothing guarantees it
SpuriousWake ==
    /\ net_pc = "park"
    /\ ~park_token
    /\ net_pc' = "check"
    /\ UNCHANGED <<role, control_thread, park_token, event_queue, jack_clients,
                   rx_map, ready, pending>>
    /\ UNCHANGED notThreads

\* server network thread: recv_audio_packet blocks until a datagram is
\* there; one shorter than a timestamp is an InvalidData error returned
\* through `?`, any other is handed to the peer's queue
NetRecv(short) ==
    /\ net_pc = "recv"
    /\ pending > 0
    /\ pending' = pending - 1
    /\ net_pc' = IF short THEN "failed" ELSE "check"
    /\ UNCHANGED <<role, control_thread, park_token, event_queue, jack_clients,
                   rx_map, ready>>
    /\ UNCHANGED notThreads

\* the steps of the network thread
NetStep ==
    \/ NetCheck
    \/ NetPop
    \/ \E ok \in BOOLEAN : NetSend(ok)
    \/ NetUnparked
    \/ \E short \in BOOLEAN : NetRecv(short)

----------------------------------------------------------------------------
(* The sample ring buffer between the network thread and the audio        *)
(* callback (syfala_net::queue::Sender over an rtrb ring buffer)          *)

RbCap == 2          \* capacity of the ring buffer, in samples
MaxCommitted == 4   \* the producer starts no send once it has committed this many slots
MaxPacket == 2      \* samples per packet: 1..MaxPacket
TimestampBits == 3  \* width of a timestamp (u64 in the program)

U64_MAX == 2 ^ TimestampBits - 1
ISIZE_MAX == 2 ^ (TimestampBits - 1) - 1

Max(a, b) == IF a >= b THEN a ELSE b

\* what a slot can hold before it is first written: the ring buffer's
\* memory is allocated uninitialised (0: zero bits, -1: anything else)
Uninit == { 0, -1 }

\* the sample of the stream that has timestamp t, as a positive number
SampleAt(t) == t + 1

\* the slot that the k-th committed sample lies in (k counted from 0)
Slot(k) == (k % RbCap) + 1

NoCall == [on |-> FALSE, ts |-> 0, n |-> 0, avail |-> 0, d |-> 0]

\* WakingTimer::drift: the signed distance from the timestamp the timer
\* expects to the one offered, an error when it does not fit an isize
drift(pos, ts) ==
    LET d == ts - pos
    IN  [err |-> d > ISIZE_MAX \/ d < -ISIZE_MAX - 1, val |-> d]

\* rtrb::RingBuffer::new and Sender::new
RingInit(mem) ==
    /\ rb_mem = mem
    /\ rb_head = 0
    /\ rb_tail = 0
    /\ tx_pos = 0
    /\ tx_call = NoCall
    /\ rx_call = -1
    /\ got = <<>>
    /\ ring_fault = "none"

\* Producer::slots and Consumer::slots
producer_slots == RbCap - (rb_tail - rb_head)
consumer_slots == rb_tail - rb_head

\* network thread: Sender::send(ts, samples) with n samples, up to the
\* snapshot of the free slots; an error of drift is returned through `?`
\* and the caller's expect panics
SendBegin(ts, n) ==
    LET dr == drift(tx_pos, ts)
    IN  /\ ring_fault = "none"
        /\ ~tx_call.on
        /\ rb_tail < MaxCommitted
        /\ IF dr.err
           THEN /\ ring_fault' = "network thread"
                /\ UNCHANGED tx_call
           ELSE /\ tx_call' = [on |-> TRUE, ts |-> ts, n |-> n,
                               avail |-> producer_slots, d |-> dr.val]
                /\ UNCHANGED ring_fault
        /\ UNCHANGED <<rb_mem, rb_head, rb_tail, tx_pos, rx_call, got>>
        /\ UNCHANGED notRing

\* the slots that a send writes, and the sample each receives: output slots
\* are skipped for a positive drift and input samples for a negative one
n_out_samples_skipped(c) == IF c.d > 0 THEN c.d ELSE 0
n_in_samples_skipped(c) == IF c.d < 0 THEN -c.d ELSE 0

n_zipped(c) ==
    Min(Max(c.avail - n_out_samples_skipped(c), 0),
        Max(c.n - n_in_samples_skipped(c), 0))

written(c, mem, tail) ==
    [i \in 1..RbCap |->
        IF \E j \in 0..(n_zipped(c) - 1) : Slot(tail + n_out_samples_skipped(c) + j) = i
        THEN LET j == CHOOSE j \in 0..(n_zipped(c) - 1) :
                        Slot(tail + n_out_samples_skipped(c) + j) = i
             IN  SampleAt(c.ts + n_in_samples_skipped(c) + j)
        ELSE mem[i]]

n_pushed_samples(c) == Min(n_out_samples_skipped(c), c.avail) + n_zipped(c)

\* network thread: the rest of Sender::send, the writes, chunk.commit and
\* advance_timer
SendCommit ==
    /\ tx_call.on
    /\ rb_mem' = written(tx_call, rb_mem, rb_tail)
    /\ rb_tail' = rb_tail + n_pushed_samples(tx_call)
    /\ tx_pos' = tx_pos + n_pushed_samples(tx_call)
    /\ tx_call' = NoCall
    /\ UNCHANGED <<rb_head, rx_call, got, ring_fault>>
    /\ UNCHANGED notRing

\* consumer thread: rx.slots()
ConsumeBegin ==
    /\ rx_call = -1
    /\ rx_call' = consumer_slots
    /\ UNCHANGED <<rb_mem, rb_head, rb_tail, tx_pos, tx_call, got, ring_fault>>
    /\ UNCHANGED notRing

\* consumer thread: rx.read_chunk(n).unwrap(), read in full and released
ConsumeCommit ==
    /\ rx_call >= 0
    /\ got' = got \o [j \in 1..rx_call |-> rb_mem[Slot(rb_head + j - 1)]]
    /\ rb_head' = rb_head + rx_call
    /\ rx_call' = -1
    /\ UNCHANGED <<rb_mem, rb_tail, tx_pos, tx_call, ring_fault>>
    /\ UNCHANGED notRing

----------------------------------------------------------------------------
(* The periodic counter (syfala_utils::queue::PeriodicCounter) *)

MaxPeriod == 5      \* periods: 1..MaxPeriod
MaxAdvance == 7     \* small steps: 0..MaxAdvance

\* the steps offered to advance: small ones, and the largest of a usize
Steps == (0..MaxAdvance) \cup { USIZE_MAX - 1, USIZE_MAX }

NoAdvance == [n |-> 0, before |-> 0, ret |-> 0, panic |-> FALSE, done |-> FALSE]

\* PeriodicCounter::new
CounterInit(p) ==
    /\ period = p
    /\ current = 0
    /\ advanced = NoAdvance

\* this variant keeps the sum as it is
advance_unwrapped(p, cur, n) ==
    IF n > USIZE_MAX - cur
    THEN [panic |-> TRUE, current |-> cur, ret |-> 0]
    ELSE [panic |-> FALSE, current |-> cur + n, ret |-> (cur + n) \div p]

\* PeriodicCounter::advance; strict_add panics when the sum overflows
advance(p, cur, n) ==
    IF n > USIZE_MAX - cur
    THEN [panic |-> TRUE, current |-> cur, ret |-> 0]
    ELSE LET next_chunk_idx_non_wrapped == cur + n
         IN  [panic |-> FALSE,
              current |-> next_chunk_idx_non_wrapped % p,
              ret |-> next_chunk_idx_non_wrapped \div p]

\* a call of advance(n); a panic ends the use of the counter
Advance(n) ==
    LET r == advance(period, current, n)
    IN  /\ ~advanced.panic
        /\ current' = r.current
        /\ advanced' = [n |-> n, before |-> current, ret |-> r.ret,
                        panic |-> r.panic, done |-> TRUE]
        /\ UNCHANGED period
        /\ UNCHANGED notCounter

----------------------------------------------------------------------------
(* The JACK client binary: registration of a peer by the control thread,  *)
(* its audio callback, and the loop of audio_network_thread_run            *)
(* (syfala_jack/src/client.rs).  The control thread stays alive here; its  *)
(* end is the subject of ControlTerminates above.                          *)

WakePeers == 2      \* peers that can be discovered
ChunkSpls == 2      \* chunk_size_spls of every peer, in samples
MaxWritten == 4     \* samples a callback writes in all, per peer

Peers == 1..WakePeers

NoPeer == [stage |-> "absent", cb |-> "idle", ring |-> 0, counter |-> 0,
           written |-> 0, stored |-> 0, sent |-> 0]

\* jack_client_run: the event queue is empty and the network thread enters
\* its loop with an empty rx_map
WakeInit ==
    /\ peer_state = [p \in Peers |-> NoPeer]
    /\ net_thread = [pc |-> "pop", token |-> FALSE, event_rx |-> <<>>,
                     rx_map |-> {}, any_ready |-> FALSE, todo |-> {},
                     flushed |-> 0]

notWake == <<clientVars, framerVars, jackVars, threadVars, ringVars, counterVars,
             feeding, wireVars, audio_sender, rx_packet, config_trip>>

\* control thread, start_jack_client: the ring buffer and the waker are
\* made and the JACK client is activated (activate_async); its callbacks
\* run from here on
Activate(p) ==
    /\ peer_state[p].stage = "absent"
    /\ \A q \in Peers : peer_state[q].stage # "activated"
    /\ peer_state' = [peer_state EXCEPT ![p].stage = "activated"]
    /\ UNCHANGED <<net_thread, notWake>>

\* control thread, try_register_client: event_tx.push((addr, net_sender))
PushEvent(p) ==
    /\ peer_state[p].stage = "activated"
    /\ peer_state' = [peer_state EXCEPT ![p].stage = "pushed"]
    /\ net_thread' = [net_thread EXCEPT !.event_rx = Append(@, p)]
    /\ UNCHANGED notWake

\* the waking timer's advance_timer(n): the counter advances by n and the
\* waker is due when a chunk boundary was crossed
advance_timer(counter, n) ==
    [counter |-> (counter + n) % ChunkSpls,
     boundaries |-> (counter + n) \div ChunkSpls]

\* audio thread of p, AudioSender::process: n samples are written to the
\* ring buffer and the timer advances by n
CallbackWrite(p, n) ==
    LET s == peer_state[p]
        boundaries == advance_timer(s.counter, n).boundaries
    IN  /\ s.stage # "absent"
        /\ s.cb = "idle"
        /\ s.written + n <= MaxWritten
        /\ peer_state' = [peer_state EXCEPT ![p] =
               [s EXCEPT !.ring = s.ring + n,
                         !.written = s.written + n,
                         !.counter = advance_timer(s.counter, n).counter,
                         !.cb = IF boundaries >= 1 THEN "wake" ELSE "idle"]]
        /\ UNCHANGED <<net_thread, notWake>>

\* audio thread of p: Waker::wake, thread_handle.unpark()
CallbackWake(p) ==
    /\ peer_state[p].cb = "wake"
    /\ peer_state' = [peer_state EXCEPT ![p].cb = "idle"]
    /\ net_thread' = [net_thread EXCEPT !.token = TRUE]
    /\ UNCHANGED notWake

\* client::Sender::send over slots samples with stored ones in the scratch
\* buffer: a datagram is flushed at every chunk boundary; when the socket
\* fails, the first flush returns the error
sender_send(stored, slots, ok) ==
    LET total == stored + slots
        flushes == total \div ChunkSpls
    IN  IF flushes >= 1 /\ ~ok
        THEN [err |-> TRUE, used_network |-> FALSE, flushes |-> 0, stored |-> 0,
              consumed |-> ChunkSpls - stored]
        ELSE [err |-> FALSE, used_network |-> flushes >= 1, flushes |-> flushes,
              stored |-> total % ChunkSpls, consumed |-> slots]

\* network thread: event_rx.pop(), at most one event per iteration, and
\* the start of the pass over rx_map
LoopPop ==
    LET n == net_thread
        map == IF n.event_rx = <<>> THEN n.rx_map
               ELSE n.rx_map \cup {Head(n.event_rx)}
    IN  /\ n.pc = "pop"
        /\ net_thread' = [n EXCEPT !.event_rx = IF @ = <<>> THEN @ ELSE Tail(@),
                                   !.rx_map = map,
                                   !.any_ready = FALSE,
                                   !.todo = map,
                                   !.flushed = 0,
                                   !.pc = "pass"]
        /\ UNCHANGED <<peer_state, notWake>>

\* network thread: any_ready |= rx.try_send(&audio_socket, addr)? for the
\* next peer of the pass (the map's iteration order is unspecified);
\* try_send reads rx.slots() samples and hands them to the packet sender
LoopTrySend(p, ok) ==
    LET n == net_thread
        s == peer_state[p]
        r == sender_send(s.stored, s.ring, ok)
    IN  /\ n.pc = "pass"
        /\ p \in n.todo
        /\ peer_state' = [peer_state EXCEPT ![p] =
               [s EXCEPT !.ring = s.ring - r.consumed,
                         !.stored = r.stored,
                         !.sent = s.sent + r.flushes]]
        /\ net_thread' = [n EXCEPT !.any_ready = n.any_ready \/ r.used_network,
                                   !.todo = n.todo \ {p},
                                   !.flushed = n.flushed + r.flushes,
                                   !.pc = IF r.err THEN "failed" ELSE "pass"]
        /\ UNCHANGED notWake

\* network thread: if !any_ready { thread::park() }
LoopDecide ==
    /\ net_thread.pc = "pass"
    /\ net_thread.todo = {}
    /\ net_thread' = [net_thread EXCEPT !.pc = IF net_thread.any_ready
                                                THEN "pop" ELSE "park"]
    /\ UNCHANGED <<peer_state, notWake>>

\* network thread: thread::park() returns, taking the token; token = FALSE
\* is a return without a token, which park allows
ParkReturns(token) ==
    /\ net_thread.pc = "park"
    /\ net_thread.token = token
    /\ net_thread' = [net_thread EXCEPT !.pc = "pop", !.token = FALSE]
    /\ UNCHANGED <<peer_state, notWake>>

----------------------------------------------------------------------------
(* The audio packet senders: wire::AudioSender ("wire"), network::Sender   *)
(* ("network") and client::Sender ("client") of syfala_net.  Samples are   *)
(* numbered 1, 2, ... in the order in which send accepts them.             *)

DatagramCap == 20   \* stands for MAX_DATAGRAM_SIZE (1452 bytes), scaled down
MaxChunk == 4       \* chunk sizes: 1..MaxChunk samples
MaxAccepted == 5    \* samples accepted in all
MaxCall == 3        \* samples offered to one send call: 1..MaxCall

SAMPLE_SIZE == 4

SenderVariants == { "wire", "network", "client" }

\* bytes that precede the sample data in a datagram: the packet type id of
\* wire::AudioSender (wire.rs 71) and the u64 timestamp
HeaderLen(v) == IF v = "wire" THEN 4 + 8 ELSE 8

\* samples that fit the scratch buffer: the ArrayVec's capacity less the
\* header, resp. MAX_SPLS_PER_DATAGRAM (client.rs 38-42)
capacity(v) == (DatagramCap - HeaderLen(v)) \div SAMPLE_SIZE

\* new(): timestamp 0 and no sample stored
SenderInit(v, chunk) ==
    audio_sender = [variant |-> v, chunk |-> chunk, ts |-> 0, stored |-> <<>>,
                    accepted |-> 0, emitted |-> <<>>, panic |-> FALSE,
                    err |-> FALSE]

notSender == <<clientVars, framerVars, jackVars, threadVars, ringVars, counterVars,
               feeding, wireVars, wakeVars, rx_packet, config_trip>>

\* current_timestamp_samples(): the packet timestamp plus the stored
\* samples (wire.rs 93-97, network.rs 222-226); client::Sender returns
\* the field alone (client.rs 63-65)
current_timestamp_samples(st) ==
    IF st.variant = "client" THEN st.ts ELSE st.ts + Len(st.stored)

\* n_remaining_chunk_samples: the samples left to the chunk boundary, at
\* most the room left in the scratch buffer; NonZero::new(0).unwrap()
\* panics
n_remaining_chunk_samples(st) ==
    LET max_samples_left == capacity(st.variant) - Len(st.stored)
        chunk_samples_left == st.chunk - ((st.ts + Len(st.stored)) % st.chunk)
    IN  [panic |-> max_samples_left = 0 \/ chunk_samples_left = 0,
         val |-> Min(max_samples_left, chunk_samples_left)]

\* flush: wire and network send the scratch buffer as it is and reset it
\* only after send_to has succeeded; client sends nothing when no sample is
\* stored, and advances its timestamp and drains the buffer before send_to
flush(st, ok) ==
    LET dg == [ts |-> st.ts, spls |-> st.stored]
        next == [st EXCEPT !.ts = st.ts + Len(st.stored), !.stored = <<>>]
    IN  IF st.variant = "client"
        THEN IF st.stored = <<>> THEN st
             ELSE IF ok THEN [next EXCEPT !.emitted = Append(@, dg)]
                  ELSE [next EXCEPT !.err = TRUE]
        ELSE IF ok THEN [next EXCEPT !.emitted = Append(@, dg)]
             ELSE [st EXCEPT !.err = TRUE]

\* the for loop of send over k more samples, rem being the loop's
\* variable; fail counts the flushes down to the one the socket refuses
\* (0: none).  Extending or pushing to a full buffer panics.
RECURSIVE send_loop(_, _, _, _)
send_loop(st, k, rem, fail) ==
    IF k = 0 THEN st
    ELSE IF Len(st.stored) >= capacity(st.variant)
    THEN [st EXCEPT !.panic = TRUE]
    ELSE LET pushed == [st EXCEPT !.stored = Append(@, st.accepted + 1),
                                  !.accepted = @ + 1]
         IN  IF rem - 1 # 0
             THEN send_loop(pushed, k - 1, rem - 1, fail)
             ELSE LET flushed == flush(pushed, fail # 1)
                      r == n_remaining_chunk_samples(flushed)
                  IN  IF flushed.err THEN flushed
                      ELSE IF r.panic THEN [flushed EXCEPT !.panic = TRUE]
                      ELSE send_loop(flushed, k - 1, r.val,
                                     IF fail > 0 THEN fail - 1 ELSE 0)

\* send(.., samples) with k samples
sender_send_samples(st, k, fail) ==
    LET r == n_remaining_chunk_samples(st)
    IN  IF r.panic THEN [st EXCEPT !.panic = TRUE]
        ELSE send_loop(st, k, r.val, fail)

\* a call of send; the error of an earlier call is the caller's to drop
SenderSend(k, fail) ==
    /\ ~audio_sender.panic
    /\ audio_sender.accepted + k <= MaxAccepted
    /\ audio_sender' = sender_send_samples([audio_sender EXCEPT !.err = FALSE], k, fail)
    /\ UNCHANGED notSender

\* a direct call of flush
SenderFlush(ok) ==
    /\ ~audio_sender.panic
    /\ Len(audio_sender.emitted) < MaxAccepted
    /\ audio_sender' = flush([audio_sender EXCEPT !.err = FALSE], ok)
    /\ UNCHANGED notSender

\* set_chunk_size_samples (network.rs 212-214), resp. the caller passes
\* another chunk size from the next call on
SetChunkSize(c) ==
    /\ ~audio_sender.panic
    /\ c # audio_sender.chunk
    /\ audio_sender' = [audio_sender EXCEPT !.chunk = c, !.err = FALSE]
    /\ UNCHANGED notSender

----------------------------------------------------------------------------
(* recv_audio_packet (syfala_net/src/network.rs 296-329).  The datagram    *)
(* has n bytes, all non-zero; the receive buffer is zeroed and takes at    *)
(* most its own length.                                                    *)

MaxFill == 3        \* byte patterns of a datagram: 1..MaxFill

TIMESTAMP_SIZE_BYTES == 8

notRecv == <<clientVars, framerVars, jackVars, threadVars, ringVars, counterVars,
             feeding, wireVars, wakeVars, audio_sender, config_trip>>

\* byte i (counted from 1) of the datagram with pattern fill
DatagramByte(fill, i) == 16 * fill + i

\* let mut buf = [0u8; MAX_DATAGRAM_SIZE]; socket.recv_from(&mut buf)
recv_from(n, fill) ==
    [bytes_read |-> Min(n, DatagramCap),
     buf |-> [i \in 1..DatagramCap |-> IF i <= n THEN DatagramByte(fill, i) ELSE 0]]

\* the body of recv_audio_packet after recv_from: the timestamp is the
\* first chunk of buf[..bytes_read], the sample bytes are
\* buf.into_iter().skip(size_of::<u64>()).take(bytes_read)
recv_audio_packet(n, fill) ==
    LET r == recv_from(n, fill)
    IN  IF r.bytes_read < TIMESTAMP_SIZE_BYTES
        THEN [err |-> "InvalidData", timestamp |-> <<>>, sample_byte_iter |-> <<>>]
        ELSE [err |-> "none",
              timestamp |-> SubSeq(r.buf, 1, TIMESTAMP_SIZE_BYTES),
              sample_byte_iter |->
                  SubSeq(r.buf, TIMESTAMP_SIZE_BYTES + 1,
                         Min(DatagramCap, TIMESTAMP_SIZE_BYTES + r.bytes_read))]

\* one call of the from_fn closure: four bytes are pulled, and the sample
\* is made only when all four were there
sample_iter_next(bytes) ==
    IF Len(bytes) < SAMPLE_SIZE
    THEN [some |-> FALSE, val |-> 0, rest |-> <<>>]
    ELSE [some |-> TRUE, val |-> from_bytes(SubSeq(bytes, 1, SAMPLE_SIZE)),
          rest |-> SubSeq(bytes, SAMPLE_SIZE + 1, Len(bytes))]

\* a datagram of n bytes waits in the socket
PacketInit(n, fill) ==
    rx_packet = [n |-> n, fill |-> fill, called |-> FALSE, err |-> "none",
                 timestamp |-> <<>>, sample_byte_iter |-> <<>>,
                 samples |-> <<>>, done |-> FALSE]

\* recv_audio_packet(socket)
RecvAudioPacket ==
    /\ rx_packet.n >= 0
    /\ ~rx_packet.called
    /\ LET r == recv_audio_packet(rx_packet.n, rx_packet.fill)
       IN  rx_packet' = [rx_packet EXCEPT !.called = TRUE, !.err = r.err,
                                          !.timestamp = r.timestamp,
                                          !.sample_byte_iter = r.sample_byte_iter,
                                          !.done = r.err # "none"]
    /\ UNCHANGED notRecv

\* the caller pulls the next sample of the returned iterator
SampleIterNext ==
    /\ rx_packet.n >= 0
    /\ rx_packet.called
    /\ ~rx_packet.done
    /\ LET r == sample_iter_next(rx_packet.sample_byte_iter)
       IN  rx_packet' = [rx_packet EXCEPT !.sample_byte_iter = r.rest,
                                          !.samples = IF r.some THEN Append(@, r.val)
                                                      ELSE @,
                                          !.done = ~r.some]
    /\ UNCHANGED notRecv

----------------------------------------------------------------------------
(* The server configuration packet: discovery::send_config and             *)
(* discovery::parse_config (syfala_net/src/network.rs 87-160)              *)

MaxConfigVal == 2   \* channel counts and buffer sizes: 1..MaxConfigVal, and 258

U32_SIZE == 4
U16_SIZE == 2

\* b"SYFALASERVERCONF"
SERVER_CONFIG_MESSAGE ==
    <<83, 89, 70, 65, 76, 65, 83, 69, 82, 86, 69, 82, 67, 79, 78, 70>>

ConfigVals == (1..MaxConfigVal) \cup {258}
IpVals == { 1, 2130706433 }
PortVals == { 1, 6910 }

notConfig == <<clientVars, framerVars, jackVars, threadVars, ringVars, counterVars,
               feeding, wireVars, wakeVars, audio_sender, rx_packet>>

Reverse(b) == [i \in 1..Len(b) |-> b[Len(b) + 1 - i]]

\* u32::from_be_bytes
from_be_bytes(b) == from_bytes(Reverse(b))

\* the packet that send_config hands to send_to
config_packet(ip, port, n_channels, buffer_size_frames) ==
    SERVER_CONFIG_MESSAGE
      \o to_bytes(ip, U32_SIZE)
      \o to_bytes(port, U16_SIZE)
      \o to_bytes(n_channels, U32_SIZE)
      \o to_bytes(buffer_size_frames, U32_SIZE)

NoParse == [some |-> FALSE, panic |-> FALSE, ip |-> 0, port |-> 0,
            n_channels |-> 0, buffer_size_frames |-> 0]

\* parse_config: None when the message differs or a field is cut short;
\* NonZeroU32::try_from(0).unwrap() panics
parse_config(packet) ==
    LET m == Len(SERVER_CONFIG_MESSAGE)
        field(from, len) == SubSeq(packet, from + 1, from + len)
    IN  IF Len(packet) < m + U32_SIZE + U16_SIZE + U32_SIZE + U32_SIZE
           \/ field(0, m) # SERVER_CONFIG_MESSAGE
        THEN NoParse
        ELSE LET n_channels == from_be_bytes(field(m + U32_SIZE + U16_SIZE, U32_SIZE))
                 buffer_size_frames ==
                     from_be_bytes(field(m + U32_SIZE + U16_SIZE + U32_SIZE, U32_SIZE))
             IN  [some |-> TRUE,
                  panic |-> n_channels = 0 \/ buffer_size_frames = 0,
                  ip |-> from_bytes(field(m, U32_SIZE)),
                  port |-> from_bytes(field(m + U32_SIZE, U16_SIZE)),
                  n_channels |-> n_channels,
                  buffer_size_frames |-> buffer_size_frames]

\* the server is about to answer a discovery with its configuration
TripInit(ip, port, n_channels, buffer_size_frames) ==
    config_trip = [done |-> FALSE, built |-> FALSE, ip |-> ip, port |-> port,
                   n_channels |-> n_channels,
                   buffer_size_frames |-> buffer_size_frames,
                   packet |-> <<>>, parsed |-> NoParse]

\* server: send_config builds the packet and sends it
BuildConfig ==
    /\ "built" \in DOMAIN config_trip
    /\ ~config_trip.built
    /\ config_trip' = [config_trip EXCEPT !.built = TRUE,
           !.packet = config_packet(config_trip.ip, config_trip.port,
                                    config_trip.n_channels,
                                    config_trip.buffer_size_frames)]
    /\ UNCHANGED notConfig

\* client: accept_config receives the packet and parses it
ParseConfig ==
    /\ "built" \in DOMAIN config_trip
    /\ config_trip.built
    /\ ~config_trip.done
    /\ config_trip' = [config_trip EXCEPT !.done = TRUE,
                                          !.parsed = parse_config(config_trip.packet)]
    /\ UNCHANGED notConfig

----------------------------------------------------------------------------
(* SampleByteStream::feed_samples (byte_producer.rs 124-133) *)

NoFeeding == [on |-> FALSE, k |-> 0, idx0 |-> 0, len0 |-> 0]

\* feed_samples(src): a new byte iterator over src; the iterator of the
\* previous call is dropped wherever its caller left it
FeedSamples(src) ==
    /\ Len(pulled) + Len(src) <= MaxSamples
    /\ source' = src
    /\ feeding' = [on |-> TRUE, k |-> Len(src), idx0 |-> prod_idx,
                   len0 |-> Len(stream)]
    /\ UNCHANGED <<size, pulled, prod_idx, prod_scratch, stream, fed, cons_idx,
                   cons_scratch, out, cons_fault, feed>>
    /\ UNCHANGED <<clientVars, jackVars, threadVars, ringVars, counterVars, wireVars,
                   extVars>>

----------------------------------------------------------------------------
(* The datagram path: flat wire enums (syfala_network), the send           *)
(* operations, and the sample types of an advertised format               *)

MaxAudio == 2       \* distinct AudioData payloads: 1..MaxAudio
MaxDatagram == 3    \* encoded lengths of a message: 1..MaxDatagram

SampleTypes ==
    { "U8", "U16", "U24", "U32", "U64", "I8", "I16", "I24", "I32", "I64",
      "IEEF32", "IEEF64" }

\* SampleType::is_signed
is_signed(t) == t \in { "I8", "I16", "I24", "I32", "IEEF32", "IEEF64" }

\* a logical message: one field per level of the nested enums, "-" (0 for
\* the audio payload) where the level is absent
Msg(v, i, s, r, f, a) ==
    [variant |-> v, inner |-> i, state |-> s, result |-> r, format |-> f,
     audio |-> a]
NoMsg == Msg("-", "-", "-", "-", "-", 0)

\* syfala_proto::message::Client
ClientMessages ==
    { Msg("Connect", "-", "-", "-", "-", 0) }
    \cup { Msg("ConnectionError", "-", "-", e, "-", 0) : e \in { "Failure", "Refusal" } }
    \cup { Msg("Connected", "Control", st, "-", "-", 0) : st \in { "Start", "Stop" } }
    \cup { Msg("Connected", "Audio", "-", "-", "-", a) : a \in 1..MaxAudio }

\* syfala_proto::message::Server; a Connect advertises one format
ServerMessages ==
    { Msg("Connect", "-", "-", "-", f, 0) : f \in SampleTypes }
    \cup { Msg("ConnectionError", "-", "-", e, "-", 0) : e \in { "Failure", "Refusal" } }
    \cup { Msg("Connected", "Control", st, r, "-", 0) :
             st \in { "Start", "Stop" }, r \in { "Ok", "Failure", "Refusal" } }
    \cup { Msg("Connected", "Audio", "-", "-", "-", a) : a \in 1..MaxAudio }

\* a flat variant with its payload
Flat(v, f, a) == [variant |-> v, format |-> f, audio |-> a]
NoFlat == Flat("-", "-", 0)

\* From<message::Client> for ClientMessageFlat
client_to_flat(v) ==
    CASE v.variant = "Connect" -> Flat("Connect", "-", 0)
      [] v.variant = "Connected" /\ v.inner = "Control" /\ v.state = "Start"
            -> Flat("StartIO", "-", 0)
      [] v.variant = "Connected" /\ v.inner = "Control" /\ v.state = "Stop"
            -> Flat("StopIO", "-", 0)
      [] v.variant = "Connected" /\ v.inner = "Audio" -> Flat("Audio", "-", v.audio)
      [] v.variant = "ConnectionError" /\ v.result = "Failure"
            -> Flat("ConnectionFailed", "-", 0)
      [] v.variant = "ConnectionError" /\ v.result = "Refusal"
            -> Flat("ConnectionRefused", "-", 0)

\* From<ClientMessageFlat> for message::Client
client_from_flat(v) ==
    CASE v.variant = "Connect" -> Msg("Connect", "-", "-", "-", "-", 0)
      [] v.variant = "ConnectionFailed" -> Msg("ConnectionError", "-", "-", "Failure", "-", 0)
      [] v.variant = "ConnectionRefused" -> Msg("ConnectionError", "-", "-", "Refusal", "-", 0)
      [] v.variant = "StartIO" -> Msg("Connected", "Control", "Start", "-", "-", 0)
      [] v.variant = "StopIO" -> Msg("Connected", "Control", "Stop", "-", "-", 0)
      [] v.variant = "Audio" -> Msg("Connected", "Audio", "-", "-", "-", v.audio)

\* From<message::Server> for ServerMessageFlat
server_to_flat(v) ==
    CASE v.variant = "Connect" -> Flat("Connect", v.format, 0)
      [] v.variant = "ConnectionError" /\ v.result = "Failure"
            -> Flat("ConnectionFailed", "-", 0)
      [] v.variant = "ConnectionError" /\ v.result = "Refusal"
            -> Flat("ConnectionRefused", "-", 0)
      [] v.variant = "Connected" /\ v.inner = "Control" /\ v.state = "Start"
            -> (CASE v.result = "Ok" -> Flat("StartIOSuccess", "-", 0)
                  [] v.result = "Failure" -> Flat("StartIOFailed", "-", 0)
                  [] v.result = "Refusal" -> Flat("StartIORefused", "-", 0))
      [] v.variant = "Connected" /\ v.inner = "Control" /\ v.state = "Stop"
            -> (CASE v.result = "Ok" -> Flat("StopIOSuccess", "-", 0)
                  [] v.result = "Failure" -> Flat("StopIOFailed", "-", 0)
                  [] v.result = "Refusal" -> Flat("StopIORefused", "-", 0))
      [] v.variant = "Connected" /\ v.inner = "Audio" -> Flat("Audio", "-", v.audio)

\* this variant reads StartIORefused as a refused stop
server_from_flat_crossed(v) ==
    CASE v.variant = "Connect" -> Msg("Connect", "-", "-", "-", v.format, 0)
      [] v.variant = "ConnectionFailed" -> Msg("ConnectionError", "-", "-", "Failure", "-", 0)
      [] v.variant = "ConnectionRefused" -> Msg("ConnectionError", "-", "-", "Refusal", "-", 0)
      [] v.variant = "StartIOFailed" -> Msg("Connected", "Control", "Start", "Failure", "-", 0)
      [] v.variant = "StartIORefused" -> Msg("Connected", "Control", "Stop", "Refusal", "-", 0)
      [] v.variant = "StartIOSuccess" -> Msg("Connected", "Control", "Start", "Ok", "-", 0)
      [] v.variant = "StopIOFailed" -> Msg("Connected", "Control", "Stop", "Failure", "-", 0)
      [] v.variant = "StopIORefused" -> Msg("Connected", "Control", "Stop", "Refusal", "-", 0)
      [] v.variant = "StopIOSuccess" -> Msg("Connected", "Control", "Stop", "Ok", "-", 0)
      [] v.variant = "Audio" -> Msg("Connected", "Audio", "-", "-", "-", v.audio)

\* From<ServerMessageFlat> for message::Server
server_from_flat(v) ==
    CASE v.variant = "Connect" -> Msg("Connect", "-", "-", "-", v.format, 0)
      [] v.variant = "ConnectionFailed" -> Msg("ConnectionError", "-", "-", "Failure", "-", 0)
      [] v.variant = "ConnectionRefused" -> Msg("ConnectionError", "-", "-", "Refusal", "-", 0)
      [] v.variant = "StartIOFailed" -> Msg("Connected", "Control", "Start", "Failure", "-", 0)
      [] v.variant = "StartIORefused" -> Msg("Connected", "Control", "Start", "Refusal", "-", 0)
      [] v.variant = "StartIOSuccess" -> Msg("Connected", "Control", "Start", "Ok", "-", 0)
      [] v.variant = "StopIOFailed" -> Msg("Connected", "Control", "Stop", "Failure", "-", 0)
      [] v.variant = "StopIORefused" -> Msg("Connected", "Control", "Stop", "Refusal", "-", 0)
      [] v.variant = "StopIOSuccess" -> Msg("Connected", "Control", "Stop", "Ok", "-", 0)
      [] v.variant = "Audio" -> Msg("Connected", "Audio", "-", "-", "-", v.audio)

\* lengths of the discovery and of the server configuration packet
DISCOVERY_MESSAGE_LEN == 16
DISCOVERY_PACKET_LEN == DISCOVERY_MESSAGE_LEN + 4 + 2
SERVER_CONFIG_PACKET_LEN == DISCOVERY_MESSAGE_LEN + 4 + 2 + 4 + 4

\* the answers of UdpSocket::send_to for a datagram of len bytes: an
\* error, or the number of bytes accepted
SockAnswers(len) == { [err |-> e, n |-> n] : e \in BOOLEAN, n \in 0..len } \
                    { [err |-> TRUE, n |-> n] : n \in 1..len }

\* Client::send and Server::send, once the message is encoded in ser_len bytes
send(ser_len, res) ==
    IF res.err THEN "Err"
    ELSE IF res.n = ser_len THEN "Ok" ELSE "Err"

\* discovery::send_config
send_config(res) ==
    IF res.err THEN "Err"
    ELSE IF res.n # DISCOVERY_PACKET_LEN THEN "Err" ELSE "Ok"

NoSend == [len |-> 0, err |-> FALSE, n |-> 0, ret |-> "-"]
NoFmt == [type |-> "-", signed |-> FALSE]

WireInit(side, m) ==
    /\ wire_side = side
    /\ wire_msg = m
    /\ wire_flat = NoFlat
    /\ wire_sent = NoSend
    /\ wire_seen = NoMsg
    /\ wire_fmt = NoFmt

\* the sender converts the message to its flat form
Flatten ==
    /\ wire_side \in { "client", "server" }
    /\ wire_flat = NoFlat
    /\ wire_flat' = IF wire_side = "client" THEN client_to_flat(wire_msg)
                    ELSE server_to_flat(wire_msg)
    /\ UNCHANGED <<wire_side, wire_msg, wire_sent, wire_seen, wire_fmt>>
    /\ UNCHANGED notWire

\* the flat form, encoded in len bytes, is offered to the socket
SendTo(len, res) ==
    /\ wire_flat # NoFlat
    /\ wire_sent = NoSend
    /\ wire_sent' = [len |-> len, err |-> res.err, n |-> res.n,
                     ret |-> send(len, res)]
    /\ UNCHANGED <<wire_side, wire_msg, wire_flat, wire_seen, wire_fmt>>
    /\ UNCHANGED notWire

\* the configuration packet is offered to the socket
SendConfig(res) ==
    /\ wire_side = "config"
    /\ wire_sent = NoSend
    /\ wire_sent' = [len |-> SERVER_CONFIG_PACKET_LEN, err |-> res.err,
                     n |-> res.n, ret |-> send_config(res)]
    /\ UNCHANGED <<wire_side, wire_msg, wire_flat, wire_seen, wire_fmt>>
    /\ UNCHANGED notWire

\* the peer receives the datagram and converts the flat form back
RecvFlat ==
    /\ wire_side \in { "client", "server" }
    /\ ~wire_sent.err /\ wire_sent.len > 0 /\ wire_sent.n = wire_sent.len
    /\ wire_seen = NoMsg
    /\ wire_seen' = IF wire_side = "client" THEN client_from_flat(wire_flat)
                    ELSE server_from_flat(wire_flat)
    /\ UNCHANGED <<wire_side, wire_msg, wire_flat, wire_sent, wire_fmt>>
    /\ UNCHANGED notWire

\* the client looks at the sample type of the advertised format
DescribeFormat ==
    /\ wire_side = "server"
    /\ wire_seen.variant = "Connect"
    /\ wire_fmt = NoFmt
    /\ wire_fmt' = [type |-> wire_seen.format, signed |-> is_signed(wire_seen.format)]
    /\ UNCHANGED <<wire_side, wire_msg, wire_flat, wire_sent, wire_seen>>
    /\ UNCHANGED notWire

----------------------------------------------------------------------------
(* Initial states and specifications *)

NoEvent == [kind |-> "init", addr |-> 0, msg |-> "none", was |-> "none"]
NoFeed == [byte_idx |-> 0, len |-> -1, expected |-> 0, scratch |-> <<>>,
           out_len |-> 0, npad |-> 0, inorder |-> TRUE, prev_old |-> FALSE]

\* GenericClient::new; the socket's receive timeout is the caller's
ClientInit ==
    /\ servers = <<>>
    /\ deadlines = <<>>
    /\ recv_timeout \in { None, Some(REQUEST_POLL_PERIOD) }
    /\ now = 0
    /\ pc = "running"
    /\ result = "none"
    /\ event = NoEvent
    /\ sent = EmptyBag
    /\ calls = EmptyBag

\* SampleByteStream::new and AudioPacketSamplePadder::new for a sample
\* type of sz bytes, with the samples src offered to the producer
FramerInit(sz, src) ==
    /\ size = sz
    /\ source = src
    /\ pulled = <<>>
    /\ prod_idx = 0
    /\ prod_scratch = Zeros(sz)
    /\ stream = <<>>
    /\ fed = 0
    /\ cons_idx = 0
    /\ cons_scratch = Zeros(sz)
    /\ out = <<>>
    /\ cons_fault = FALSE
    /\ feed = NoFeed

\* the parts of the model that a specification leaves at rest
NoPacket == [n |-> -1]
NoTrip == [done |-> FALSE]

\* the later sub-models at rest
ExtRest ==
    /\ WakeInit
    /\ SenderInit("wire", 1)
    /\ rx_packet = NoPacket
    /\ config_trip = NoTrip

AuxInit ==
    /\ JackInit(1)
    /\ ThreadsInit("client")
    /\ RingInit([i \in 1..RbCap |-> 0])
    /\ CounterInit(1)
    /\ feeding = NoFeeding
    /\ WireInit("config", NoMsg)
    /\ ExtRest

Init ==
    /\ ClientInit
    /\ FramerInit(1, <<>>)
    /\ AuxInit

\* the choices the environment has when msg is handled: the result of the
\* application's connect and whether the socket accepts the reply
Choices(msg) ==
    IF msg = "Connect" THEN ConnectResults \X BOOLEAN
    ELSE IF msg \in { "Start(Err(Failure))", "Stop(Err(Failure))" }
         THEN { "Ok" } \X BOOLEAN
         ELSE { <<"Ok", TRUE>> }

AllOrders == Orders(Addrs)

\* the servers that a timeout handled at instant t polls with an effect:
\* those that are not expired and are Inactive or Active
Pollable(t) ==
    { a \in DOMAIN servers :
        /\ ~(a \in DOMAIN deadlines /\ deadlines[a] <= t)
        /\ servers[a] \in { "Inactive", "Active" } }

\* the choices the environment has when a timeout is handled at t: the
\* servers whose poll answers yes, the one whose send fails (0: none), the
\* order of the visits (it matters only when a send fails) and whether
\* set_recv_timeout succeeds (it is reached only when no send fails)
TimeoutChoices(t) ==
    { <<o, [a \in Addrs |-> a \in Y], [a \in Addrs |-> a # f], s>> :
        <<Y, f, o, s>> \in
          { x \in (SUBSET Pollable(t)) \X (Addrs \cup {0}) \X AllOrders \X BOOLEAN :
              /\ x[2] = 0 \/ x[2] \in x[1]
              /\ x[2] = 0 => x[3] = CHOOSE o \in AllOrders : TRUE
              /\ x[2] # 0 => x[4] } }

Next ==
    \/ /\ pc = "running"
       /\ \E a \in Addrs, t \in Instants, m \in ServerMsgs \cup {"unknown"} :
             /\ t >= now
             /\ \E c \in Choices(m) : RecvOk(a, t, m, c[1], c[2])
    \/ /\ pc = "running"
       /\ recv_timeout.some
       /\ \E k \in ErrorKinds, t \in Instants :
             /\ io_err_is_timeout(k)
             /\ t >= now + recv_timeout.dur
             /\ \E c \in TimeoutChoices(t) :
                   RecvTimedOut(k, t, c[1], c[2], c[3], c[4])
    \/ \E k \in ErrorKinds : RecvFailed(k)

Spec == Init /\ [][Next]_vars

InitFramer ==
    /\ ClientInit
    /\ recv_timeout = None
    /\ \E sz \in 1..MaxSampleSize :
         \E src \in SeqsUpTo(SampleSet(sz), MaxSamples) : FramerInit(sz, src)
    /\ AuxInit

NextFramer ==
    \/ ProducerNext
    \/ \E b \in 0..(MaxSampleSize * MaxSamples), n \in 0..(MaxSampleSize * MaxSamples) :
          FeedPacket(b, n)

SpecFramer == InitFramer /\ [][NextFramer]_vars

\* the receive loop keeps handling events for as long as one can occur
FairSpec == Init /\ [][Next]_vars /\ WF_vars(Next)

\* the client registry and the framer at rest
RestInit ==
    /\ ClientInit
    /\ recv_timeout = None
    /\ FramerInit(1, <<>>)

\* the audio engine calls process once per cycle, with any frame time
InitJack ==
    /\ RestInit
    /\ \E ports \in 1..MaxPorts : JackInit(ports)
    /\ ThreadsInit("client")
    /\ RingInit([i \in 1..RbCap |-> 0])
    /\ CounterInit(1)
    /\ feeding = NoFeeding
    /\ WireInit("config", NoMsg)
    /\ ExtRest

NextJack == \E t \in 0..MaxFrameTime : process(t)

SpecJack == InitJack /\ [][NextJack]_vars

\* a ring buffer whose memory holds anything, fed with packets of any
\* timestamp and read by the consumer at any moment
InitRing ==
    /\ RestInit
    /\ JackInit(1)
    /\ ThreadsInit("server")
    /\ \E mem \in [1..RbCap -> Uninit] : RingInit(mem)
    /\ CounterInit(1)
    /\ feeding = NoFeeding
    /\ WireInit("config", NoMsg)
    /\ ExtRest

NextRing ==
    \/ \E ts \in 0..U64_MAX, n \in 1..MaxPacket : SendBegin(ts, n)
    \/ SendCommit
    \/ ConsumeBegin
    \/ ConsumeCommit

SpecRing == InitRing /\ [][NextRing]_vars

\* a counter of any period, advanced by any steps
InitCounter ==
    /\ RestInit
    /\ JackInit(1)
    /\ ThreadsInit("client")
    /\ RingInit([i \in 1..RbCap |-> 0])
    /\ \E p \in 1..MaxPeriod : CounterInit(p)
    /\ feeding = NoFeeding
    /\ WireInit("config", NoMsg)
    /\ ExtRest

NextCounter == \E n \in Steps : Advance(n)

SpecCounter == InitCounter /\ [][NextCounter]_vars

\* a SampleByteStream that is fed again and again; each iterator is pulled
\* for as long as its caller likes
InitProducer ==
    /\ ClientInit
    /\ recv_timeout = None
    /\ \E sz \in 1..MaxSampleSize : FramerInit(sz, <<>>)
    /\ AuxInit

NextProducer ==
    \/ \E src \in SeqsUpTo(SampleSet(size), MaxSamples) : FeedSamples(src)
    \/ ProducerNext

SpecProducer == InitProducer /\ [][NextProducer]_vars

\* any message sent by a client or by a server, or a configuration packet
InitWire ==
    /\ RestInit
    /\ JackInit(1)
    /\ ThreadsInit("client")
    /\ RingInit([i \in 1..RbCap |-> 0])
    /\ CounterInit(1)
    /\ feeding = NoFeeding
    /\ \/ \E m \in ClientMessages : WireInit("client", m)
       \/ \E m \in ServerMessages : WireInit("server", m)
       \/ WireInit("config", NoMsg)
    /\ ExtRest

NextWire ==
    \/ Flatten
    \/ \E len \in 1..MaxDatagram : \E res \in SockAnswers(len) : SendTo(len, res)
    \/ \E res \in SockAnswers(SERVER_CONFIG_PACKET_LEN) : SendConfig(res)
    \/ RecvFlat
    \/ DescribeFormat

SpecWire == InitWire /\ [][NextWire]_vars

\* either binary: the client (jack_client_run) or the server
\* peers are discovered and their callbacks write while the network thread
\* loops
InitWake ==
    /\ RestInit
    /\ JackInit(1)
    /\ ThreadsInit("client")
    /\ RingInit([i \in 1..RbCap |-> 0])
    /\ CounterInit(1)
    /\ feeding = NoFeeding
    /\ WireInit("config", NoMsg)
    /\ WakeInit
    /\ SenderInit("wire", 1)
    /\ rx_packet = NoPacket
    /\ config_trip = NoTrip

NextWake ==
    \/ \E p \in Peers : Activate(p)
    \/ \E p \in Peers : PushEvent(p)
    \/ \E p \in Peers, n \in 1..ChunkSpls : CallbackWrite(p, n)
    \/ \E p \in Peers : CallbackWake(p)
    \/ LoopPop
    \/ \E p \in Peers, ok \in BOOLEAN : LoopTrySend(p, ok)
    \/ LoopDecide
    \/ \E token \in BOOLEAN : ParkReturns(token)

SpecWake == InitWake /\ [][NextWake]_vars

\* a sender of any of the three kinds, used with any chunk sizes over a
\* socket that may refuse a datagram
InitSender ==
    /\ RestInit
    /\ JackInit(1)
    /\ ThreadsInit("client")
    /\ RingInit([i \in 1..RbCap |-> 0])
    /\ CounterInit(1)
    /\ feeding = NoFeeding
    /\ WireInit("config", NoMsg)
    /\ WakeInit
    /\ \E v \in SenderVariants, c \in 1..MaxChunk : SenderInit(v, c)
    /\ rx_packet = NoPacket
    /\ config_trip = NoTrip

NextSender ==
    \/ \E k \in 1..MaxCall, fail \in 0..MaxCall : SenderSend(k, fail)
    \/ \E ok \in BOOLEAN : SenderFlush(ok)
    \/ \E c \in 1..MaxChunk : SetChunkSize(c)

SpecSender == InitSender /\ [][NextSender]_vars

\* a datagram of any length up to the buffer's and beyond
InitRecv ==
    /\ RestInit
    /\ JackInit(1)
    /\ ThreadsInit("client")
    /\ RingInit([i \in 1..RbCap |-> 0])
    /\ CounterInit(1)
    /\ feeding = NoFeeding
    /\ WireInit("config", NoMsg)
    /\ WakeInit
    /\ SenderInit("wire", 1)
    /\ \E n \in 0..(DatagramCap + 1), fill \in 1..MaxFill : PacketInit(n, fill)
    /\ config_trip = NoTrip

NextRecv ==
    \/ RecvAudioPacket
    \/ SampleIterNext

SpecRecv == InitRecv /\ [][NextRecv]_vars

\* a configuration of any address and any non-zero counts
InitConfig ==
    /\ RestInit
    /\ JackInit(1)
    /\ ThreadsInit("client")
    /\ RingInit([i \in 1..RbCap |-> 0])
    /\ CounterInit(1)
    /\ feeding = NoFeeding
    /\ WireInit("config", NoMsg)
    /\ WakeInit
    /\ SenderInit("wire", 1)
    /\ rx_packet = NoPacket
    /\ \E ip \in IpVals, port \in PortVals, c \in ConfigVals, b \in ConfigVals :
          TripInit(ip, port, c, b)

NextConfig ==
    \/ BuildConfig
    \/ ParseConfig

SpecConfig == InitConfig /\ [][NextConfig]_vars

InitThreads ==
    /\ RestInit
    /\ JackInit(1)
    /\ \E r \in { "client", "server" } : ThreadsInit(r)
    /\ RingInit([i \in 1..RbCap |-> 0])
    /\ CounterInit(1)
    /\ feeding = NoFeeding
    /\ WireInit("config", NoMsg)
    /\ ExtRest

NextThreads ==
    \/ ControlRegisters
    \/ ControlTerminates
    \/ AudioCallback
    \/ DatagramArrives
    \/ SpuriousWake
    \/ NetStep

\* a runnable network thread is scheduled, and so is the audio callback of
\* an active JACK client; nothing makes a datagram arrive, the control
\* thread fail or park return without a token
FairSpecThreads ==
    InitThreads /\ [][NextThreads]_vars /\ WF_vars(NetStep) /\ WF_vars(AudioCallback)

----------------------------------------------------------------------------
(* Properties of the client registry *)

Connected(a) == a \in DOMAIN servers
StateOf(a) == IF a \in DOMAIN servers THEN servers[a] ELSE "Absent"

\* the last event was the decoded message m, received from a server that
\* was in IO state s when it arrived
Handled(m, s) == event.kind = "message" /\ event.msg = m /\ event.was = s

\* the send_msg calls of the last event addressed to a
SentTo(a) == { x \in BagToSet(sent) : x.to = a }
NumSentTo(a) == BagCardinality(sent) - BagCardinality(sent (-) SetToBag(SentTo(a)))
Called(c, a) == CopiesIn(Call(c, a), calls)

\* C1: the set of addresses in the deadline priority queue equals the set
\* of addresses in the server state map after every handled event,
\* including an event during which an outbound send failed.
C1_HeapEqualsMap == DOMAIN deadlines = DOMAIN servers

\* a is connected and no valid message has arrived from it for CONN_TIMEOUT
Overdue(a) == Connected(a) /\ a \in DOMAIN deadlines /\ deadlines[a] <= now

\* the explored instants still contain one at which the pending receive
\* timeout can fire
HorizonOpen ==
    recv_timeout.some => \E t \in Instants : t >= now + recv_timeout.dur

\* C2: a connected server that has been silent for CONN_TIMEOUT is
\* eventually removed by the running receive loop (or is heard from again),
\* whatever the other servers send and whatever the receive timeout was.
C2_SilentPeerRemoved ==
    \A a \in Addrs :
        (pc = "running" /\ Overdue(a) /\ HorizonOpen) ~> (~Overdue(a) \/ pc # "running")

\* C6: a server in PendingStart that receives Start(Ok) becomes Active and
\* start_io is invoked exactly once; no other event takes a server from
\* PendingStart to Active.
C6_StartOk ==
    [][ \A a \in Addrs :
          /\ (StateOf(a) = "PendingStart" /\ event'.kind = "message"
                /\ event'.addr = a /\ event'.msg = "Start(Ok)")
             => /\ StateOf(a)' = "Active"
                /\ calls' = One(Call("start_io", a))
          /\ (StateOf(a) = "PendingStart" /\ StateOf(a)' = "Active")
             => /\ event'.kind = "message"
                /\ event'.addr = a
                /\ event'.msg = "Start(Ok)" ]_vars

C6_Witness ==
    /\ Handled("Start(Ok)", "PendingStart")
    /\ StateOf(event.addr) = "Active"
    /\ Called("start_io", event.addr) = 1

\* C7: Start(Err(Failure)) in PendingStart (Stop(Err(Failure)) in
\* PendingStop) leaves the IO state unchanged and makes exactly one send_msg
\* call, a RequestIOStateChange(Start) (resp. Stop) to that server.
C7_FailureRetries ==
    /\ Handled("Start(Err(Failure))", "PendingStart")
         => /\ StateOf(event.addr) = "PendingStart"
            /\ BagCardinality(sent) = 1
            /\ \E ok \in BOOLEAN :
                 CopiesIn(Send(REQUEST_START, event.addr, ok), sent) = 1
    /\ Handled("Stop(Err(Failure))", "PendingStop")
         => /\ StateOf(event.addr) = "PendingStop"
            /\ BagCardinality(sent) = 1
            /\ \E ok \in BOOLEAN :
                 CopiesIn(Send(REQUEST_STOP, event.addr, ok), sent) = 1

C7_Witness ==
    /\ Handled("Stop(Err(Failure))", "PendingStop")
    /\ StateOf(event.addr) = "PendingStop"
    /\ CopiesIn(Send(REQUEST_STOP, event.addr, TRUE), sent) = 1

\* C8: a Refusal reverts the server to the state it had before the request
\* and notifies the application once, sending nothing: Start(Err(Refusal))
\* in PendingStart gives Inactive with start_io_refused, Stop(Err(Refusal))
\* in PendingStop gives Active with stop_io_refused.
C8_RefusalReverts ==
    /\ Handled("Start(Err(Refusal))", "PendingStart")
         => /\ StateOf(event.addr) = "Inactive"
            /\ calls = One(Call("start_io_refused", event.addr))
            /\ sent = EmptyBag
    /\ Handled("Stop(Err(Refusal))", "PendingStop")
         => /\ StateOf(event.addr) = "Active"
            /\ calls = One(Call("stop_io_refused", event.addr))
            /\ sent = EmptyBag

C8_Witness ==
    /\ Handled("Stop(Err(Refusal))", "PendingStop")
    /\ StateOf(event.addr) = "Active"
    /\ Called("stop_io_refused", event.addr) = 1

\* C9: when an Active server is polled and poll_stop_io answers yes, the
\* server moves to PendingStop and the client sends it a
\* RequestIOStateChange(Stop) and no Start request.
C9_StopRequested ==
    \A a \in Addrs :
        Called("poll_stop_io:Ok", a) >= 1
          => /\ StateOf(a) = "PendingStop"
             /\ \E x \in SentTo(a) : x.msg = REQUEST_STOP
             /\ \A x \in SentTo(a) : x.msg # REQUEST_START

\* C10: when an Inactive server is polled and poll_start_io answers yes,
\* the server moves to PendingStart and exactly one
\* RequestIOStateChange(Start) is sent to it; when the poll answers no the
\* server stays Inactive and nothing is sent to it.
C10_StartRequested ==
    \A a \in Addrs :
        /\ Called("poll_start_io:Ok", a) >= 1
             => /\ StateOf(a) = "PendingStart"
                /\ NumSentTo(a) = 1
                /\ \A x \in SentTo(a) : x.msg = REQUEST_START
        /\ Called("poll_start_io:Err", a) >= 1
             => /\ StateOf(a) = "Inactive"
                /\ NumSentTo(a) = 0

C10_Witness ==
    \E a, b \in Addrs :
        /\ Called("poll_start_io:Ok", a) = 1
        /\ StateOf(a) = "PendingStart"
        /\ CopiesIn(Send(REQUEST_START, a, TRUE), sent) = 1
        /\ Called("poll_start_io:Err", b) = 1
        /\ StateOf(b) = "Inactive"

\* the message m does not match the IO state s of a connected server: a
\* Heartbeat, a Start result outside PendingStart, a Stop result outside
\* PendingStop
Unexpected(m, s) ==
    /\ s \in ServerIOState
    /\ \/ m = "Heartbeat"
       \/ m \in { "Start(Ok)", "Start(Err(Failure))", "Start(Err(Refusal))" }
            /\ s # "PendingStart"
       \/ m \in { "Stop(Ok)", "Stop(Err(Failure))", "Stop(Err(Refusal))" }
            /\ s # "PendingStop"

\* C11: a Heartbeat, and any IOStateChangeResult that does not match the
\* server's current IO state, leaves the IO state unchanged, invokes no
\* callback, sends nothing and does not end the receive loop.
C11_UnexpectedIgnored ==
    (event.kind = "message" /\ Unexpected(event.msg, event.was))
        => /\ StateOf(event.addr) = event.was
           /\ calls = EmptyBag
           /\ sent = EmptyBag
           /\ pc = "running"

C11_Witness ==
    /\ Handled("Stop(Ok)", "Active")
    /\ StateOf(event.addr) = "Active"
    /\ calls = EmptyBag
    /\ pc = "running"

\* C12: an audio message from a connected server is forwarded to on_audio
\* if and only if the server is Active when it arrives; in the other IO
\* states it is dropped; the IO state is unchanged in every case.
C12_AudioForwarding ==
    (event.kind = "message" /\ event.msg = "Audio" /\ event.was \in ServerIOState)
        => /\ StateOf(event.addr) = event.was
           /\ Called("on_audio", event.addr) = 1 <=> event.was = "Active"
           /\ event.was # "Active" => calls = EmptyBag
           /\ BagCardinality(calls) <= 1

C12_Witness ==
    /\ Handled("Audio", "Active")
    /\ StateOf(event.addr) = "Active"
    /\ calls = One(Call("on_audio", event.addr))

\* the result returned by the connect callback invoked in the last event
ConnectReturned(res, a) == Called("connect:" \o res, a) = 1

\* C13: on a Connect from an address A that is not in the map, connect is
\* invoked once and exactly one ConnectionResult carrying its result is sent
\* to A; A is in the map as Inactive with deadline arrival + CONN_TIMEOUT
\* if and only if connect returned Ok; on Err neither map nor heap gains A.
C13_ConnectHandled ==
    Handled("Connect", "Absent") =>
        LET a == event.addr
        IN  /\ BagCardinality(calls) = 1
            /\ \E res \in ConnectResults :
                 /\ ConnectReturned(res, a)
                 /\ BagCardinality(sent) = 1
                 /\ \E ok \in BOOLEAN :
                      CopiesIn(Send("ConnectionResult(" \o res \o ")", a, ok), sent) = 1
            /\ ConnectReturned("Ok", a)
                 <=> /\ a \in DOMAIN servers
                     /\ servers[a] = "Inactive"
                     /\ a \in DOMAIN deadlines
                     /\ deadlines[a] = now + CONN_TIMEOUT
            /\ ~ConnectReturned("Ok", a)
                 => a \notin DOMAIN servers /\ a \notin DOMAIN deadlines

\* C14: after any decoded message from an address A that is in the map once
\* the message is handled, A's deadline is that datagram's arrival
\* timestamp + CONN_TIMEOUT (the heap holds one entry per address, so the
\* previous entry is replaced).
C14_DeadlineRefreshed ==
    (event.kind = "message" /\ event.msg # "unknown"
            /\ event.addr \in DOMAIN servers)
        => /\ event.addr \in DOMAIN deadlines
           /\ deadlines[event.addr] = now + CONN_TIMEOUT

\* C15: a Disconnect from a connected address A removes A from the state
\* map and from the deadline heap whatever its IO state and leaves the
\* other servers alone; a Disconnect from an unknown address changes nothing;
\* neither faults nor ends the receive loop.
C15_Disconnect ==
    [][ (event'.kind = "message" /\ event'.msg = "Disconnect")
          => LET a == event'.addr
             IN  /\ pc' = "running"
                 /\ IF a \in DOMAIN servers
                    THEN /\ servers' = MapRemove(servers, a)
                         /\ deadlines' = MapRemove(deadlines, a)
                    ELSE UNCHANGED <<servers, deadlines>> ]_vars

C15_Witness ==
    /\ Handled("Disconnect", "PendingStop")
    /\ event.addr \notin DOMAIN servers
    /\ event.addr \notin DOMAIN deadlines
    /\ DOMAIN servers # {}
    /\ pc = "running"

\* the IO state a server that was in state s has after the polling loop of
\* the last event visited it
AfterPoll(s, a) ==
    IF Called("poll_start_io:Ok", a) = 1 THEN "PendingStart"
    ELSE IF Called("poll_stop_io:Ok", a) = 1 THEN "PendingStop"
    ELSE s

\* C16: when a receive timeout is handled at instant now, every server whose
\* deadline is <= now is removed from heap and map, every server whose
\* deadline is > now is kept with its deadline and its IO state (changed
\* only by the request poll of the same handler), and afterwards no
\* remaining server has a deadline <= now.
C16_Expiry ==
    [][ event'.kind = "timeout"
          => /\ \A a \in DOMAIN servers :
                  IF deadlines[a] <= now'
                  THEN a \notin DOMAIN servers' /\ a \notin DOMAIN deadlines'
                  ELSE /\ a \in DOMAIN servers'
                       /\ a \in DOMAIN deadlines'
                       /\ deadlines'[a] = deadlines[a]
                       /\ servers'[a] = AfterPoll(servers[a], a)'
             /\ DOMAIN servers' \subseteq DOMAIN servers
             /\ \A a \in DOMAIN deadlines' : deadlines'[a] > now' ]_vars

C16_Witness ==
    \E a, b \in Addrs :
        /\ event.kind = "timeout"
        /\ a \in event.was
        /\ a \notin DOMAIN servers /\ a \notin DOMAIN deadlines
        /\ b \in DOMAIN servers /\ servers[b] = "PendingStart"
        /\ deadlines[b] = now + 1
        /\ Called("poll_start_io:Ok", b) = 1

\* C17: a datagram that fails to decode changes no server's IO state,
\* refreshes no deadline, adds or removes no server and does not end the
\* receive loop; it is only reported through unknown_message.
C17_UndecodableIgnored ==
    [][ (event'.kind = "message" /\ event'.msg = "unknown")
          => /\ UNCHANGED <<servers, deadlines, recv_timeout>>
             /\ pc' = "running"
             /\ sent' = EmptyBag
             /\ calls' = One(Call("unknown_message", event'.addr)) ]_vars

C17_Witness ==
    /\ event.kind = "message" /\ event.msg = "unknown"
    /\ event.was = "Active"
    /\ servers[event.addr] = "Active"
    /\ deadlines[event.addr] < now + CONN_TIMEOUT
    /\ calls = One(Call("unknown_message", event.addr))
    /\ pc = "running"

\* C18: the receive loop never returns because of a WouldBlock or TimedOut
\* error (such an error is a tick and the loop continues); when it returns,
\* it returns a non-timeout I/O error, raised by recv, by a handler or by a
\* send, and it returns at the first such error.
C18_ReturnsFirstFatal ==
    /\ pc = "running" => result = "none"
    /\ pc = "returned" => result \in ErrorKinds /\ ~io_err_is_timeout(result)
    /\ (pc = "running" /\ event.kind \in { "message", "timeout" })
          => \A x \in BagToSet(sent) : x.ok

\* C19: after handling any event (a datagram or a receive timeout) while at
\* least one server is connected, the socket's receive timeout equals
\* min(earliest deadline - now saturated at zero, REQUEST_POLL_PERIOD,
\* CONN_TIMEOUT): it is set, at most 10 ms and not negative.
C19_RecvTimeoutFollowsDeadline ==
    (pc = "running" /\ event.kind \in { "message", "timeout" }
            /\ DOMAIN servers # {})
        => LET earliest == peek(deadlines)
               until == IF earliest >= now THEN earliest - now ELSE 0
           IN  /\ recv_timeout.some
               /\ recv_timeout.dur = Min(Min(until, REQUEST_POLL_PERIOD), CONN_TIMEOUT)
               /\ recv_timeout.dur <= 10
               /\ recv_timeout.dur >= 0

\* a is connected and in an IO state that the request poll acts on
AwaitsPoll(a) == StateOf(a) \in { "Inactive", "Active" }

\* the last event polled the application for a start or stop request of a
Polled(a) ==
    \E c \in { "poll_start_io:Ok", "poll_start_io:Err",
               "poll_stop_io:Ok", "poll_stop_io:Err" } : Called(c, a) >= 1

\* C20: every connected server in Inactive or Active is eventually polled
\* for an application start/stop request by the running receive loop, even
\* while datagrams keep arriving faster than the receive timeout.
C20_EventuallyPolled ==
    \A a \in Addrs :
        (pc = "running" /\ AwaitsPoll(a) /\ HorizonOpen)
            ~> (Polled(a) \/ ~AwaitsPoll(a) \/ pc # "running")

\* the request that retries the pending state s
RetryOf(s) == IF s = "PendingStart" THEN REQUEST_START ELSE REQUEST_STOP

\* C32: a receive timeout that the loop survives re-sends the pending
\* request of every server that is in PendingStart or PendingStop and stays
\* connected: RequestIOStateChange(Start), resp. (Stop)
C32_PendingRetried ==
    [][ (event'.kind = "timeout" /\ pc' = "running")
          => \A a \in DOMAIN servers :
                (a \in DOMAIN servers' /\ servers[a] \in {"PendingStart", "PendingStop"})
                  => \E x \in BagToSet(sent') :
                        x.to = a /\ x.msg = RetryOf(servers[a]) ]_vars

\* C35: handling a datagram from an address changes neither the IO state
\* nor the deadline of any other address, invokes no callback for it and
\* sends nothing to it
C35_OtherPeersUntouched ==
    [][ event'.kind = "message"
          => \A b \in Addrs \ {event'.addr} :
                /\ (b \in DOMAIN servers') = (b \in DOMAIN servers)
                /\ b \in DOMAIN servers => servers'[b] = servers[b]
                /\ (b \in DOMAIN deadlines') = (b \in DOMAIN deadlines)
                /\ b \in DOMAIN deadlines => deadlines'[b] = deadlines[b]
                /\ \A x \in BagToSet(sent') : x.to # b
                /\ \A c \in BagToSet(calls') : c.addr # b ]_vars

\* a message of one server has changed that server's state and invoked
\* its callback while another server was connected and pending
C35_Witness ==
    \E a, b \in Addrs :
        /\ a # b
        /\ event.kind = "message" /\ event.addr = a
        /\ event.was = "PendingStart"
        /\ StateOf(a) = "Active"
        /\ \E c \in BagToSet(calls) : c.addr = a
        /\ StateOf(b) = "PendingStart"

\* C36: a Connect from an address that is already in the map invokes no
\* callback, sends nothing and leaves the server's IO state as it was; its
\* deadline is refreshed to the arrival time plus CONN_TIMEOUT
C36_ConnectAgain ==
    \A a \in Addrs :
        (event.kind = "message" /\ event.addr = a /\ event.msg = "Connect"
           /\ event.was # "Absent")
          => /\ StateOf(a) = event.was
             /\ sent = EmptyBag
             /\ calls = EmptyBag
             /\ pc = "running"
             /\ a \in DOMAIN deadlines
             /\ deadlines[a] = now + CONN_TIMEOUT

\* an Active server has sent Connect again, later than its first Connect
C36_Witness ==
    \E a \in Addrs :
        /\ event.kind = "message" /\ event.addr = a /\ event.msg = "Connect"
        /\ event.was = "Active"
        /\ StateOf(a) = "Active"
        /\ now > 1

----------------------------------------------------------------------------
(* Properties of the byte framer *)

CeilDiv(x, n) == IF x % n = 0 THEN x \div n ELSE (x \div n) + 1

\* the samples yielded by the last feed_bytes call
Yielded == SubSeq(out, feed.out_len + 1, Len(out))

FeedDone == feed.len >= 0
FeedOld == FeedDone /\ feed.byte_idx < feed.expected
FeedInOrder == FeedDone /\ feed.byte_idx = feed.expected
FeedGap == FeedDone /\ feed.byte_idx > feed.expected

\* C3: when the bytes emitted by the producer for the samples S are fed to
\* the consumer as an in-order, gap-free sequence of packets, draining
\* yields exactly the samples whose bytes have all been fed, with no
\* padding sample and no fault.
C3_RoundTrip ==
    (FeedDone /\ feed.inorder)
        => /\ ~cons_fault
           /\ out = [i \in 1..(fed \div size) |-> Spl(pulled[i])]

\* C4: when the consumer expects byte index a and is fed a packet whose
\* byte_idx is b > a, it yields exactly ceil(b/size) - floor(a/size)
\* padding samples, all of them before any sample decoded from the packet.
C4_PaddingCount ==
    FeedGap =>
        LET n == CeilDiv(feed.byte_idx, size) - (feed.expected \div size)
        IN  /\ Len(Yielded) >= n
            /\ \A i \in 1..Len(Yielded) : (Yielded[i] = Pad) <=> (i <= n)

C4_Witness ==
    /\ FeedGap
    /\ feed.expected % size # 0
    /\ feed.byte_idx % size # 0
    /\ Len(Yielded) = 2
    /\ Yielded[1] = Pad /\ Yielded[2] = Pad

\* C5: a packet whose byte_idx is below the expected index is dropped
\* entirely (no sample, expected index and scratch unchanged), and a
\* following packet whose byte_idx equals the expected index is accepted and
\* decoded: every sample it completes is yielded, without fault.
C5_ReorderDropped ==
    /\ FeedOld
         => /\ Yielded = <<>>
            /\ cons_idx = feed.expected
            /\ cons_scratch = feed.scratch
            /\ ~cons_fault
    /\ (FeedInOrder /\ feed.prev_old)
         => /\ ~cons_fault
            /\ cons_idx = feed.expected + feed.len
            /\ Len(Yielded) = (cons_idx \div size) - (feed.expected \div size)

\* the first sample boundary at or after the byte_idx of the last packet
Boundary == CeilDiv(feed.byte_idx, size) * size

\* the samples decoded from the last packet: what it yielded after the
\* padding
Decoded ==
    SubSeq(Yielded, CeilDiv(feed.byte_idx, size) - (feed.expected \div size) + 1,
           Len(Yielded))

\* C30: once a packet whose byte_idx is above the expected index has been
\* consumed, the bytes skipped are those before the first sample boundary
\* at or after byte_idx, the first sample decoded is the one that starts at
\* that boundary, and the expected index is byte_idx + len(bytes)
C30_GapConsumed ==
    FeedGap =>
        /\ ~cons_fault
        /\ cons_idx = feed.byte_idx + feed.len
        /\ Len(Decoded) =
              Max(((feed.byte_idx + feed.len) \div size) - (Boundary \div size), 0)
        /\ Decoded # <<>> => Decoded[1] = Spl(pulled[(Boundary \div size) + 1])

----------------------------------------------------------------------------
(* Properties of the duplex audio callback *)

\* C21: whatever frame times the audio engine reports, also ones below the
\* frame time of the first cycle, process completes and returns Continue
C21_ProcessContinues == control \in { "none", "Continue" }

----------------------------------------------------------------------------
(* Properties of the threads *)

\* the network thread has returned: with the control thread's error, or
\* with an I/O error of its own
NetEnded == net_pc \in { "joined", "failed" }

\* C22: once the control thread has terminated, the network thread, unless
\* it ends with an error of its own, eventually joins it and returns its
\* error, also when it is parked or blocked in a receive with no traffic
C22_JoinsControl == (control_thread = "finished") ~> NetEnded

\* a chunk that p's callback has written, and signalled, is not yet sent
ChunkWaits(p) ==
    /\ peer_state[p].cb = "idle"
    /\ peer_state[p].stored + peer_state[p].ring >= ChunkSpls

----------------------------------------------------------------------------
(* Properties of the audio packet senders *)

RECURSIVE Carried(_, _)
\* the samples carried by the first n datagrams emitted
Carried(e, n) == IF n = 0 THEN <<>> ELSE Carried(e, n - 1) \o e[n].spls

\* C37: the timestamp of each emitted datagram is the number of samples
\* carried by the datagrams emitted before it, the samples come in the
\* order in which they were given, current_timestamp_samples() is the
\* number of samples accepted so far, and no datagram is longer than
\* MAX_DATAGRAM_SIZE
C37_SenderTimestamps ==
    LET e == audio_sender.emitted
        all == Carried(e, Len(e))
    IN  /\ \A i \in 1..Len(e) : e[i].ts = Len(Carried(e, i - 1))
        /\ \A i, j \in 1..Len(all) : i < j => all[i] < all[j]
        /\ current_timestamp_samples(audio_sender) = audio_sender.accepted
        /\ \A i \in 1..Len(e) :
              HeaderLen(audio_sender.variant) + SAMPLE_SIZE * Len(e[i].spls)
                <= DatagramCap

\* C38: at every point n_remaining_chunk_samples is not zero: the scratch
\* buffer has room for one more sample and holds fewer samples than a
\* chunk, and no unwrap or push has panicked
C38_RemainingNonZero ==
    /\ ~audio_sender.panic
    /\ ~n_remaining_chunk_samples(audio_sender).panic
    /\ Len(audio_sender.stored) < capacity(audio_sender.variant)
    /\ Len(audio_sender.stored) < audio_sender.chunk

----------------------------------------------------------------------------
(* Properties of the audio packet receiver and of the configuration packet *)

\* the k-th sample of the datagram: bytes 8 + 4(k - 1) .. 8 + 4k of it
SampleOfDatagram(k) ==
    from_bytes([i \in 1..SAMPLE_SIZE |->
        DatagramByte(rx_packet.fill, TIMESTAMP_SIZE_BYTES + SAMPLE_SIZE * (k - 1) + i)])

\* C39: for a datagram of n >= 8 bytes the iterator yields the
\* floor((n - 8) / 4) samples of bytes 8..n and none built from bytes
\* beyond the received length; a shorter datagram is an InvalidData error
C39_SamplesOfDatagram ==
    rx_packet.n >= 0 /\ rx_packet.called
      => LET n == Min(rx_packet.n, DatagramCap)
         IN  IF n < TIMESTAMP_SIZE_BYTES
             THEN rx_packet.err = "InvalidData"
             ELSE /\ rx_packet.err = "none"
                  /\ Len(rx_packet.samples) <= (n - TIMESTAMP_SIZE_BYTES) \div SAMPLE_SIZE
                  /\ rx_packet.done =>
                        Len(rx_packet.samples) = (n - TIMESTAMP_SIZE_BYTES) \div SAMPLE_SIZE
                  /\ \A k \in 1..Len(rx_packet.samples) :
                        rx_packet.samples[k] = SampleOfDatagram(k)

\* C40: parse_config decodes the packet built by send_config to the same
\* address and the same AudioConfig
C40_ConfigRoundTrip ==
    ("done" \in DOMAIN config_trip /\ config_trip.done)
      => /\ config_trip.parsed.some
         /\ ~config_trip.parsed.panic
         /\ config_trip.parsed.ip = config_trip.ip
         /\ config_trip.parsed.port = config_trip.port
         /\ config_trip.parsed.n_channels = config_trip.n_channels
         /\ config_trip.parsed.buffer_size_frames = config_trip.buffer_size_frames

----------------------------------------------------------------------------
(* Properties of the ring buffer *)

\* C23: under every interleaving of the two threads, the samples that the
\* consumer reads come in the order in which the producer wrote them, none
\* twice and none out of order (values that no send wrote are left aside)
C23_FifoOrder ==
    \A i, j \in 1..Len(got) :
        (i < j /\ got[i] > 0 /\ got[j] > 0) => got[i] < got[j]

\* C26: no drift, however large and of either sign, ends the network
\* thread or the audio callback
C26_DriftAbsorbed == ring_fault = "none"

\* the value that pads a skipped slot
SILENCE == 0

\* C33: every slot committed by Sender::send holds the input sample of its
\* position in the stream or SILENCE; the slots skipped for a drift are
\* padded, never left with stale or unwritten content
C33_CommittedSlots ==
    \A k \in rb_head..(rb_tail - 1) :
        rb_mem[Slot(k)] \in {SILENCE, SampleAt(k)}

----------------------------------------------------------------------------
(* Properties of the periodic counter *)

----------------------------------------------------------------------------
(* Properties of the byte producer *)

\* the iterator of the last feed_samples call is drained: next returns None
Drained == feeding.on /\ ~producer_next(source, prod_idx, prod_scratch).ok

\* bytes emitted by the iterator of the last feed_samples call
Emitted == Len(stream) - feeding.len0

\* C25 as stated: draining the iterator of feed_samples for k samples yields
\* k * size bytes and advances current_byte_idx by k * size, and
\* current_byte_idx always equals the number of bytes emitted so far
C25_DrainYields ==
    /\ prod_idx = Len(stream)
    /\ Drained => /\ Emitted = feeding.k * size
                  /\ prod_idx - feeding.idx0 = feeding.k * size

\* C25 amended: the count is k * size when feed_samples is called at a sample
\* boundary; when the previous iterator was left inside a sample, the
\* remaining bytes of that sample come first
C25_DrainYieldsFromBoundary ==
    /\ prod_idx = Len(stream)
    /\ Drained =>
          LET rest == (size - (feeding.idx0 % size)) % size
          IN  /\ Emitted = rest + feeding.k * size
              /\ prod_idx - feeding.idx0 = rest + feeding.k * size

\* a later call, made at a sample boundary, drained after a sample of
\* several bytes
C25_Witness ==
    /\ Drained
    /\ size > 1
    /\ feeding.k >= 1
    /\ feeding.idx0 > 0
    /\ feeding.idx0 % size = 0
    /\ Emitted = feeding.k * size

\* the little-endian encoding of the samples pulled so far, in order
RECURSIVE Encoding(_)
Encoding(spls) ==
    IF spls = <<>> THEN <<>>
    ELSE to_bytes(Head(spls), size) \o Encoding(Tail(spls))

\* C31: whatever the points at which the byte iterators of successive
\* feed_samples calls are abandoned, the bytes yielded so far are a prefix of
\* the encoding of the samples pulled so far, and a sample is pulled only
\* when its first byte is emitted
C31_StreamIsPrefix ==
    /\ Len(pulled) = CeilDiv(Len(stream), size)
    /\ stream = SubSeq(Encoding(pulled), 1, Len(stream))

\* a call made inside a sample has yielded the rest of that sample and
\* gone on to a sample of its own
C31_Witness ==
    /\ feeding.on
    /\ feeding.idx0 % size # 0
    /\ Emitted > size - (feeding.idx0 % size)
    /\ Len(pulled) >= 2

----------------------------------------------------------------------------
(* Properties of the datagram path *)

\* C27: every send operation returns Ok exactly when the socket accepted
\* the whole encoded datagram, and an error when it accepted fewer bytes
C27_SendResult ==
    wire_sent # NoSend =>
        (wire_sent.ret = "Ok" <=> (~wire_sent.err /\ wire_sent.n = wire_sent.len))

\* C28: converting a logical message to the flat enum and back yields the
\* message, for client and for server messages, and distinct messages have
\* distinct flat forms: the peer sees the nested form that was sent
C28_FlatRoundTrip ==
    /\ wire_seen # NoMsg => wire_seen = wire_msg
    /\ \A m1, m2 \in ClientMessages :
          client_to_flat(m1) = client_to_flat(m2) => m1 = m2
    /\ \A m1, m2 \in ServerMessages :
          server_to_flat(m1) = server_to_flat(m2) => m1 = m2
    /\ \A m \in ClientMessages : client_from_flat(client_to_flat(m)) = m
    /\ \A m \in ServerMessages : server_from_flat(server_to_flat(m)) = m

\* the peer has received a refused start from a server
C28_Witness ==
    /\ wire_side = "server"
    /\ wire_msg = Msg("Connected", "Control", "Start", "Refusal", "-", 0)
    /\ wire_flat.variant = "StartIORefused"
    /\ wire_seen = wire_msg

\* C29: is_signed is true exactly for I8, I16, I24, I32, I64, IEEF32 and
\* IEEF64, and false for U8, U16, U24, U32 and U64
C29_IsSigned ==
    wire_fmt # NoFmt =>
        (wire_fmt.signed <=>
            wire_fmt.type \in { "I8", "I16", "I24", "I32", "I64", "IEEF32", "IEEF64" })

====
